---- MODULE Spec2Model ----
(***************************************************************************)
(* jira-cli: the persistence layer (src/src/db.rs, src/src/models.rs), the  *)
(* pages (src/src/ui/pages/mod.rs) and the navigator that main.rs drives.  *)
(*                                                                         *)
(* JiraDatabase keeps no state of its own: every public operation reads    *)
(* the whole DBState from the Database behind it, changes the copy, and    *)
(* writes the whole copy back.  The variable db is what that Database      *)
(* holds (MockDB.last_written_state, or the JSON file).                    *)
(***************************************************************************)
EXTENDS Integers, Sequences, FiniteSets, TLC

VARIABLES
    db,         \* the persisted DBState
    last,       \* the last call made on JiraDatabase: operation, arguments,
                \* result, and the DBState persisted before the call (pre)
    returned,   \* the IDs returned by the successful creates, in call order
    plainEpics, \* TRUE while every create_epic so far was given an epic
                \* whose story list is empty (what Epic::new builds)
    pages,      \* the navigator's stack of pages, the current page last
    pc,         \* where main's loop stands: "top" (before get_current_page),
                \* "input" (page drawn, a line is awaited), "action" (an action
                \* is handed to the navigator), "done" (after break), "panicked"
    inst        \* per running instance of the program: the JiraDatabase call
                \* it is in, the DBState that call has read, and its result

vars == <<db, last, returned, plainEpics, pages, pc, inst>>

----------------------------------------------------------------------------
(* Bounds of the model                                                     *)

\* creates are explored while last_item_id is below MaxId
MaxId == 3

----------------------------------------------------------------------------
(* models.rs                                                               *)

Status == {"Open", "InProgress", "Resolved", "Closed"}

\* Epic::new: status Open, no stories
Epic_new(name, description) ==
    [name |-> name, description |-> description, status |-> "Open", stories |-> <<>>]

\* Story::new: status Open
Story_new(name, description) ==
    [name |-> name, description |-> description, status |-> "Open"]

\* DBState { last_item_id: 0, epics: HashMap::new(), stories: HashMap::new() }
EmptyDBState == [last_item_id |-> 0, epics |-> <<>>, stories |-> <<>>]

----------------------------------------------------------------------------
(* HashMap and Vec operations used by db.rs                                *)

\* HashMap::insert: the value under key k is replaced or added
MapInsert(m, k, v) == [x \in (DOMAIN m) \cup {k} |-> IF x = k THEN v ELSE m[x]]

\* HashMap::remove for every key of ks: absent keys are ignored
MapRemoveAll(m, ks) == [x \in (DOMAIN m) \ ks |-> m[x]]

\* the elements of a Vec
Elems(v) == {v[i] : i \in 1..Len(v)}

\* Iterator::position: index of the first element equal to x, 0 for None
Position(v, x) ==
    IF x \in Elems(v) THEN CHOOSE i \in 1..Len(v) : v[i] = x /\ \A j \in 1..(i-1) : v[j] # x
    ELSE 0

\* Vec::remove(index): the element at i is taken out, the rest keep their order
VecRemove(v, i) == [j \in 1..(Len(v) - 1) |-> IF j < i THEN v[j] ELSE v[j + 1]]

\* last_item_id + 1 on u32.  The runs that start from last_item_id = 0 make
\* few creates, so the sum stays far below the u32 range; the runs that start
\* near u32::MAX hold the u32 as the 32-bit integer with the same bits (see
\* U32Max), on which this sum is the one modulo 2^32.
NextId(last_item_id) == last_item_id + 1

----------------------------------------------------------------------------
(* db.rs: Database                                                         *)

\* What the Database holds is either a DBState (MockDB.last_written_state, or a
\* file whose content decodes to it), or a file that cannot be read, or a file
\* whose content is not the JSON of a DBState
MissingFile == [error |-> "No such file or directory (os error 2)"]
InvalidJson == [error |-> "expected comma or closing brace at line 1 column 21"]
BadStores == {MissingFile, InvalidJson}

Decodable(store) == "last_item_id" \in DOMAIN store

\* read_db: MockDB returns a clone of the last written state; JSONFileDatabase
\* returns the decoded file content, or the error of fs::read_to_string or of
\* serde_json::from_str
read_db(store) ==
    IF Decodable(store)
    THEN [ok |-> TRUE, err |-> "", state |-> store]
    ELSE [ok |-> FALSE, err |-> store.error]

\* the result of an operation: Ok(id) or Err(err), and the states it handed
\* to write_db, in order
Ok(id, written) == [ok |-> TRUE, err |-> "", id |-> id, saves |-> written]
Err(msg) == [ok |-> FALSE, err |-> msg, id |-> 0, saves |-> <<>>]

EpicNotFound == "Could not find epic in the database!"
StoryNotInEpic == "Story id not found in epic stories vector"
StoryNotFound == "Could not find story in the database!"

\* MockDB::write_db: the store holds the last state written
write_db(store, saves) == IF saves = <<>> THEN store ELSE saves[Len(saves)]

----------------------------------------------------------------------------

(* db.rs: JiraDatabase                                                     *)

\* create_epic without `parsed_db.last_item_id = new_id`
create_epic_no_counter(store, epic) ==
    IF ~read_db(store).ok THEN Err(read_db(store).err) ELSE
    LET parsed_db == read_db(store).state
        new_id == NextId(parsed_db.last_item_id)
    IN  Ok(new_id, <<[parsed_db EXCEPT !.epics = MapInsert(@, new_id, epic)]>>)

\* create_epic inserting Epic::new(name, description) instead of the epic given
create_epic_empty_list(store, epic) ==
    IF ~read_db(store).ok THEN Err(read_db(store).err) ELSE
    LET parsed_db == read_db(store).state
        new_id == NextId(parsed_db.last_item_id)
        counted == [parsed_db EXCEPT !.last_item_id = new_id]
        inserted == [counted EXCEPT
                        !.epics = MapInsert(@, new_id, Epic_new(epic.name, epic.description))]
    IN  Ok(new_id, <<inserted>>)

\* create_epic starting from an empty DBState when read_db fails
create_epic_default_on_error(store, epic) ==
    LET parsed_db == IF read_db(store).ok THEN read_db(store).state ELSE EmptyDBState
        new_id == NextId(parsed_db.last_item_id)
        counted == [parsed_db EXCEPT !.last_item_id = new_id]
        inserted == [counted EXCEPT !.epics = MapInsert(@, new_id, epic)]
    IN  Ok(new_id, <<inserted>>)

\* create_epic: read, new_id = last_item_id + 1, store the counter, insert the
\* epic as given under new_id, write, Ok(new_id)
create_epic(store, epic) ==
    IF ~read_db(store).ok THEN Err(read_db(store).err) ELSE
    LET parsed_db == read_db(store).state
        new_id == NextId(parsed_db.last_item_id)
        counted == [parsed_db EXCEPT !.last_item_id = new_id]
        inserted == [counted EXCEPT !.epics = MapInsert(@, new_id, epic)]
    IN  Ok(new_id, <<inserted>>)

\* create_story without the push on the epic's story list
create_story_no_push(store, story, epic_id) ==
    IF ~read_db(store).ok THEN Err(read_db(store).err) ELSE
    LET parsed_db == read_db(store).state
        new_id == NextId(parsed_db.last_item_id)
        counted == [parsed_db EXCEPT !.last_item_id = new_id]
        inserted == [counted EXCEPT !.stories = MapInsert(@, new_id, story)]
    IN  IF epic_id \notin DOMAIN inserted.epics
        THEN Err(EpicNotFound)
        ELSE Ok(new_id, <<inserted>>)

\* create_story inserting the story under last_item_id as read, not under new_id
create_story_old_key(store, story, epic_id) ==
    IF ~read_db(store).ok THEN Err(read_db(store).err) ELSE
    LET parsed_db == read_db(store).state
        new_id == NextId(parsed_db.last_item_id)
        counted == [parsed_db EXCEPT !.last_item_id = new_id]
        inserted == [counted EXCEPT
                        !.stories = MapInsert(@, parsed_db.last_item_id, story)]
    IN  IF epic_id \notin DOMAIN inserted.epics
        THEN Err(EpicNotFound)
        ELSE Ok(new_id, <<[inserted EXCEPT
                              !.epics[epic_id].stories = Append(@, new_id)]>>)

\* create_story writing the state before it looks the epic up
create_story_write_first(store, story, epic_id) ==
    IF ~read_db(store).ok THEN Err(read_db(store).err) ELSE
    LET parsed_db == read_db(store).state
        new_id == NextId(parsed_db.last_item_id)
        counted == [parsed_db EXCEPT !.last_item_id = new_id]
        inserted == [counted EXCEPT !.stories = MapInsert(@, new_id, story)]
    IN  IF epic_id \notin DOMAIN inserted.epics
        THEN [Err(EpicNotFound) EXCEPT !.saves = <<inserted>>]
        ELSE Ok(new_id, <<[inserted EXCEPT
                              !.epics[epic_id].stories = Append(@, new_id)]>>)

\* create_story without `parsed_db.last_item_id = new_id`
create_story_no_counter(store, story, epic_id) ==
    IF ~read_db(store).ok THEN Err(read_db(store).err) ELSE
    LET parsed_db == read_db(store).state
        new_id == NextId(parsed_db.last_item_id)
        inserted == [parsed_db EXCEPT !.stories = MapInsert(@, new_id, story)]
    IN  IF epic_id \notin DOMAIN inserted.epics
        THEN Err(EpicNotFound)
        ELSE Ok(new_id, <<[inserted EXCEPT
                              !.epics[epic_id].stories = Append(@, new_id)]>>)

\* create_story putting new_id at the front of the epic's story list
create_story_at_front(store, story, epic_id) ==
    IF ~read_db(store).ok THEN Err(read_db(store).err) ELSE
    LET parsed_db == read_db(store).state
        new_id == NextId(parsed_db.last_item_id)
        counted == [parsed_db EXCEPT !.last_item_id = new_id]
        inserted == [counted EXCEPT !.stories = MapInsert(@, new_id, story)]
    IN  IF epic_id \notin DOMAIN inserted.epics
        THEN Err(EpicNotFound)
        ELSE Ok(new_id, <<[inserted EXCEPT
                              !.epics[epic_id].stories = <<new_id>> \o @]>>)

\* create_story: read, new_id = last_item_id + 1, store the counter, insert the
\* story under new_id, then look the epic up: Err without a write when it is
\* absent, else push new_id on its story list, write, Ok(new_id)
create_story(store, story, epic_id) ==
    IF ~read_db(store).ok THEN Err(read_db(store).err) ELSE
    LET parsed_db == read_db(store).state
        new_id == NextId(parsed_db.last_item_id)
        counted == [parsed_db EXCEPT !.last_item_id = new_id]
        inserted == [counted EXCEPT !.stories = MapInsert(@, new_id, story)]
    IN  IF epic_id \notin DOMAIN inserted.epics
        THEN Err(EpicNotFound)
        ELSE Ok(new_id, <<[inserted EXCEPT
                              !.epics[epic_id].stories = Append(@, new_id)]>>)

\* delete_epic without the loop that removes the epic's stories
delete_epic_keeps_stories(store, epic_id) ==
    IF ~read_db(store).ok THEN Err(read_db(store).err) ELSE
    LET parsed_db == read_db(store).state
    IN  IF epic_id \notin DOMAIN parsed_db.epics
        THEN Err(EpicNotFound)
        ELSE Ok(0, <<[parsed_db EXCEPT !.epics = MapRemoveAll(@, {epic_id})]>>)

\* delete_epic giving the IDs above the largest remaining key back
delete_epic_reclaims(store, epic_id) ==
    IF ~read_db(store).ok THEN Err(read_db(store).err) ELSE
    LET parsed_db == read_db(store).state
    IN  IF epic_id \notin DOMAIN parsed_db.epics
        THEN Err(EpicNotFound)
        ELSE LET listed == Elems(parsed_db.epics[epic_id].stories)
                 stories == MapRemoveAll(parsed_db.stories, listed)
                 epics == MapRemoveAll(parsed_db.epics, {epic_id})
                 keys == (DOMAIN stories) \cup (DOMAIN epics) \cup {0}
             IN  Ok(0, <<[last_item_id |-> CHOOSE k \in keys : \A x \in keys : x <= k,
                          epics |-> epics, stories |-> stories]>>)

\* delete_epic removing every story of the store
delete_epic_all_stories(store, epic_id) ==
    IF ~read_db(store).ok THEN Err(read_db(store).err) ELSE
    LET parsed_db == read_db(store).state
    IN  IF epic_id \notin DOMAIN parsed_db.epics
        THEN Err(EpicNotFound)
        ELSE Ok(0, <<[parsed_db EXCEPT !.stories = <<>>,
                                       !.epics = MapRemoveAll(@, {epic_id})]>>)

\* delete_epic: read, Err without a write when the epic is absent, else remove
\* from stories every ID of the epic's story list, remove the epic, write
delete_epic(store, epic_id) ==
    IF ~read_db(store).ok THEN Err(read_db(store).err) ELSE
    LET parsed_db == read_db(store).state
    IN  IF epic_id \notin DOMAIN parsed_db.epics
        THEN Err(EpicNotFound)
        ELSE LET listed == Elems(parsed_db.epics[epic_id].stories)
                 without == [parsed_db EXCEPT !.stories = MapRemoveAll(@, listed)]
             IN  Ok(0, <<[without EXCEPT !.epics = MapRemoveAll(@, {epic_id})]>>)

\* delete_story without `epic.stories.remove(story_index)`
delete_story_keeps_list(store, epic_id, story_id) ==
    IF ~read_db(store).ok THEN Err(read_db(store).err) ELSE
    LET parsed_db == read_db(store).state
    IN  IF epic_id \notin DOMAIN parsed_db.epics
        THEN Err(EpicNotFound)
        ELSE IF Position(parsed_db.epics[epic_id].stories, story_id) = 0
             THEN Err(StoryNotInEpic)
             ELSE Ok(0, <<[parsed_db EXCEPT !.stories = MapRemoveAll(@, {story_id})]>>)

\* delete_story without `parsed_db.stories.remove(&story_id)`
delete_story_keeps_story(store, epic_id, story_id) ==
    IF ~read_db(store).ok THEN Err(read_db(store).err) ELSE
    LET parsed_db == read_db(store).state
    IN  IF epic_id \notin DOMAIN parsed_db.epics
        THEN Err(EpicNotFound)
        ELSE LET story_index == Position(parsed_db.epics[epic_id].stories, story_id)
             IN  IF story_index = 0
                 THEN Err(StoryNotInEpic)
                 ELSE Ok(0, <<[parsed_db EXCEPT
                                  !.epics[epic_id].stories = VecRemove(@, story_index)]>>)

\* delete_story looking story_id up in the stories map, not in the epic's list
delete_story_global(store, epic_id, story_id) ==
    IF ~read_db(store).ok THEN Err(read_db(store).err) ELSE
    LET parsed_db == read_db(store).state
    IN  IF epic_id \notin DOMAIN parsed_db.epics
        THEN Err(EpicNotFound)
        ELSE IF story_id \notin DOMAIN parsed_db.stories
             THEN Err(StoryNotInEpic)
             ELSE LET story_index == Position(parsed_db.epics[epic_id].stories, story_id)
                  IN  Ok(0, <<[parsed_db EXCEPT
                                  !.epics[epic_id].stories =
                                      IF story_index = 0 THEN @ ELSE VecRemove(@, story_index),
                                  !.stories = MapRemoveAll(@, {story_id})]>>)

\* delete_story removing the story and writing before it searches the epic's list
delete_story_eager(store, epic_id, story_id) ==
    IF ~read_db(store).ok THEN Err(read_db(store).err) ELSE
    LET parsed_db == read_db(store).state
    IN  IF epic_id \notin DOMAIN parsed_db.epics
        THEN Err(EpicNotFound)
        ELSE LET story_index == Position(parsed_db.epics[epic_id].stories, story_id)
                 removed == [parsed_db EXCEPT !.stories = MapRemoveAll(@, {story_id})]
             IN  IF story_index = 0
                 THEN [Err(StoryNotInEpic) EXCEPT !.saves = <<removed>>]
                 ELSE Ok(0, <<removed, [removed EXCEPT
                                  !.epics[epic_id].stories = VecRemove(@, story_index)]>>)

\* delete_story removing a live story from whichever epic lists it
delete_story_any_epic(store, epic_id, story_id) ==
    IF ~read_db(store).ok THEN Err(read_db(store).err) ELSE
    LET parsed_db == read_db(store).state
    IN  IF epic_id \notin DOMAIN parsed_db.epics
        THEN Err(EpicNotFound)
        ELSE IF story_id \notin DOMAIN parsed_db.stories
             THEN Err(StoryNotInEpic)
             ELSE Ok(0, <<[parsed_db EXCEPT
                             !.epics = [e \in DOMAIN @ |->
                                 [@[e] EXCEPT !.stories =
                                     IF Position(@, story_id) = 0 THEN @
                                     ELSE VecRemove(@, Position(@, story_id))]],
                             !.stories = MapRemoveAll(@, {story_id})]>>)

\* delete_story: read, Err when the epic is absent, Err when story_id is not in
\* that epic's story list, else remove the element at its first position from
\* the list and the story from stories, write
delete_story(store, epic_id, story_id) ==
    IF ~read_db(store).ok THEN Err(read_db(store).err) ELSE
    LET parsed_db == read_db(store).state
    IN  IF epic_id \notin DOMAIN parsed_db.epics
        THEN Err(EpicNotFound)
        ELSE LET story_index == Position(parsed_db.epics[epic_id].stories, story_id)
             IN  IF story_index = 0
                 THEN Err(StoryNotInEpic)
                 ELSE Ok(0, <<[parsed_db EXCEPT
                                  !.epics[epic_id].stories = VecRemove(@, story_index),
                                  !.stories = MapRemoveAll(@, {story_id})]>>)

\* update_epic_status: read, Err when the epic is absent, else set its status, write
update_epic_status(store, epic_id, status) ==
    IF ~read_db(store).ok THEN Err(read_db(store).err) ELSE
    LET parsed_db == read_db(store).state
    IN  IF epic_id \notin DOMAIN parsed_db.epics
        THEN Err(EpicNotFound)
        ELSE Ok(0, <<[parsed_db EXCEPT !.epics[epic_id].status = status]>>)

\* update_story_status refusing to move a story out of Status::Closed
update_story_status_closed_is_final(store, story_id, status) ==
    IF ~read_db(store).ok THEN Err(read_db(store).err) ELSE
    LET parsed_db == read_db(store).state
    IN  IF story_id \notin DOMAIN parsed_db.stories
        THEN Err(StoryNotFound)
        ELSE IF parsed_db.stories[story_id].status = "Closed" /\ status # "Closed"
        THEN Err(StoryNotFound)
        ELSE Ok(0, <<[parsed_db EXCEPT !.stories[story_id].status = status]>>)

\* update_story_status: read, Err when the story is absent, else set its status, write
update_story_status(store, story_id, status) ==
    IF ~read_db(store).ok THEN Err(read_db(store).err) ELSE
    LET parsed_db == read_db(store).state
    IN  IF story_id \notin DOMAIN parsed_db.stories
        THEN Err(StoryNotFound)
        ELSE Ok(0, <<[parsed_db EXCEPT !.stories[story_id].status = status]>>)

----------------------------------------------------------------------------
(* ui/pages: the pages, their input handling and their drawing             *)

\* the pages; each holds the Rc<JiraDatabase> it reads (the store argument below)
HomePage == [kind |-> "HomePage"]
EpicDetail(epic_id) == [kind |-> "EpicDetail", epic_id |-> epic_id]
StoryDetail(epic_id, story_id) ==
    [kind |-> "StoryDetail", epic_id |-> epic_id, story_id |-> story_id]

\* models::Action
Exit == [type |-> "Exit"]
CreateEpicAction == [type |-> "CreateEpic"]
NavigateToPreviousPage == [type |-> "NavigateToPreviousPage"]
NavigateToEpicDetail(epic_id) == [type |-> "NavigateToEpicDetail", epic_id |-> epic_id]
NavigateToStoryDetail(epic_id, story_id) ==
    [type |-> "NavigateToStoryDetail", epic_id |-> epic_id, story_id |-> story_id]
UpdateEpicStatusAction(epic_id) == [type |-> "UpdateEpicStatus", epic_id |-> epic_id]
DeleteEpicAction(epic_id) == [type |-> "DeleteEpic", epic_id |-> epic_id]
CreateStoryAction(epic_id) == [type |-> "CreateStory", epic_id |-> epic_id]
UpdateStoryStatusAction(story_id) == [type |-> "UpdateStoryStatus", story_id |-> story_id]
DeleteStoryAction(epic_id, story_id) ==
    [type |-> "DeleteStory", epic_id |-> epic_id, story_id |-> story_id]

\* Option<Action>::None
None == [type |-> "None"]

\* Result<Option<Action>>
InputOk(action) == [ok |-> TRUE, err |-> "", action |-> action]
InputErr(msg) == [ok |-> FALSE, err |-> msg, action |-> None]

\* An input line is a sequence of characters.  " " and "\n" are white space,
\* "x" is a letter that is no command.
DigitChars == {"0", "1", "2", "3"}
DigitValue(c) == CASE c = "0" -> 0 [] c = "1" -> 1 [] c = "2" -> 2 [] c = "3" -> 3

\* the decimal value of a sequence of digits, most significant first
RECURSIVE DecimalValue(_)
DecimalValue(digits) ==
    IF digits = <<>> THEN 0
    ELSE 10 * DecimalValue(SubSeq(digits, 1, Len(digits) - 1))
           + DigitValue(digits[Len(digits)])

\* a parse that takes no digit string with a leading zero but "0"
parse_u32_no_leading_zero(input) ==
    IF input = <<>> THEN [ok |-> FALSE, value |-> 0]
    ELSE IF Len(input) = 1 /\ input[1] \in {"+", "-"} THEN [ok |-> FALSE, value |-> 0]
    ELSE LET digits == IF input[1] = "+" THEN Tail(input) ELSE input
         IN  IF \/ \E i \in 1..Len(digits) : digits[i] \notin DigitChars
                \/ (Len(digits) > 1 /\ digits[1] = "0")
             THEN [ok |-> FALSE, value |-> 0]
             ELSE [ok |-> TRUE, value |-> DecimalValue(digits)]

\* str::parse::<u32>: Err on the empty string and on a lone sign; one leading
\* "+" is skipped, "-" is no digit of an unsigned type; every remaining
\* character must be a digit, leading zeros included.  (The inputs explored
\* are too short to exceed u32::MAX.)
parse_u32(input) ==
    IF input = <<>> THEN [ok |-> FALSE, value |-> 0]
    ELSE IF Len(input) = 1 /\ input[1] \in {"+", "-"} THEN [ok |-> FALSE, value |-> 0]
    ELSE LET digits == IF input[1] = "+" THEN Tail(input) ELSE input
         IN  IF \E i \in 1..Len(digits) : digits[i] \notin DigitChars
             THEN [ok |-> FALSE, value |-> 0]
             ELSE [ok |-> TRUE, value |-> DecimalValue(digits)]

\* HomePage::handle_input accepting any number, live epic or not
HomePage_handle_input_any_number(store, input) ==
    IF ~read_db(store).ok THEN InputErr(read_db(store).err) ELSE
    IF input = <<"q">> THEN InputOk(Exit)
    ELSE IF input = <<"c">> THEN InputOk(CreateEpicAction)
    ELSE IF parse_u32(input).ok
    THEN InputOk(NavigateToEpicDetail(parse_u32(input).value))
    ELSE InputOk(None)

\* HomePage::handle_input that also takes "p" for the previous page
HomePage_handle_input_with_previous(store, input) ==
    IF ~read_db(store).ok THEN InputErr(read_db(store).err) ELSE
    LET epics == read_db(store).state.epics
    IN  IF input = <<"q">> THEN InputOk(Exit)
        ELSE IF input = <<"c">> THEN InputOk(CreateEpicAction)
        ELSE IF input = <<"p">> THEN InputOk(NavigateToPreviousPage)
        ELSE IF parse_u32(input).ok /\ parse_u32(input).value \in DOMAIN epics
        THEN InputOk(NavigateToEpicDetail(parse_u32(input).value))
        ELSE InputOk(None)

\* HomePage::handle_input with the arms of "q" and "c" exchanged
HomePage_handle_input_swapped(store, input) ==
    IF ~read_db(store).ok THEN InputErr(read_db(store).err) ELSE
    LET epics == read_db(store).state.epics
    IN  IF input = <<"q">> THEN InputOk(CreateEpicAction)
        ELSE IF input = <<"c">> THEN InputOk(Exit)
        ELSE IF parse_u32(input).ok /\ parse_u32(input).value \in DOMAIN epics
        THEN InputOk(NavigateToEpicDetail(parse_u32(input).value))
        ELSE InputOk(None)

\* HomePage::handle_input: read the epics, match "q" and "c", else parse the
\* input as u32 and navigate when that is a key of epics, else None
HomePage_handle_input(store, input) ==
    IF ~read_db(store).ok THEN InputErr(read_db(store).err) ELSE
    LET epics == read_db(store).state.epics
    IN  IF input = <<"q">> THEN InputOk(Exit)
        ELSE IF input = <<"c">> THEN InputOk(CreateEpicAction)
        ELSE IF parse_u32(input).ok /\ parse_u32(input).value \in DOMAIN epics
        THEN InputOk(NavigateToEpicDetail(parse_u32(input).value))
        ELSE InputOk(None)

\* EpicDetail::handle_input looking the number up in the epic's own story list
EpicDetail_handle_input_own_list(store, epic_id, input) ==
    IF ~read_db(store).ok THEN InputErr(read_db(store).err) ELSE
    LET epics == read_db(store).state.epics
    IN  IF input = <<"p">> THEN InputOk(NavigateToPreviousPage)
        ELSE IF input = <<"u">> THEN InputOk(UpdateEpicStatusAction(epic_id))
        ELSE IF input = <<"d">> THEN InputOk(DeleteEpicAction(epic_id))
        ELSE IF input = <<"c">> THEN InputOk(CreateStoryAction(epic_id))
        ELSE IF /\ parse_u32(input).ok
                /\ epic_id \in DOMAIN epics
                /\ parse_u32(input).value \in Elems(epics[epic_id].stories)
        THEN InputOk(NavigateToStoryDetail(epic_id, parse_u32(input).value))
        ELSE InputOk(None)

\* EpicDetail::handle_input returning an error when its epic is gone
EpicDetail_handle_input_checks_epic(store, epic_id, input) ==
    IF ~read_db(store).ok THEN InputErr(read_db(store).err) ELSE
    LET stories == read_db(store).state.stories
    IN  IF epic_id \notin DOMAIN read_db(store).state.epics
        THEN InputErr("could not find epic!")
        ELSE IF input = <<"p">> THEN InputOk(NavigateToPreviousPage)
        ELSE IF input = <<"u">> THEN InputOk(UpdateEpicStatusAction(epic_id))
        ELSE IF input = <<"d">> THEN InputOk(DeleteEpicAction(epic_id))
        ELSE IF input = <<"c">> THEN InputOk(CreateStoryAction(epic_id))
        ELSE IF parse_u32(input).ok /\ parse_u32(input).value \in DOMAIN stories
        THEN InputOk(NavigateToStoryDetail(epic_id, parse_u32(input).value))
        ELSE InputOk(None)

\* EpicDetail::handle_input navigating to any number, live story or not
EpicDetail_handle_input_any_number(store, epic_id, input) ==
    IF ~read_db(store).ok THEN InputErr(read_db(store).err) ELSE
    IF input = <<"p">> THEN InputOk(NavigateToPreviousPage)
    ELSE IF input = <<"u">> THEN InputOk(UpdateEpicStatusAction(epic_id))
    ELSE IF input = <<"d">> THEN InputOk(DeleteEpicAction(epic_id))
    ELSE IF input = <<"c">> THEN InputOk(CreateStoryAction(epic_id))
    ELSE IF parse_u32(input).ok
    THEN InputOk(NavigateToStoryDetail(epic_id, parse_u32(input).value))
    ELSE InputOk(None)

\* EpicDetail::handle_input: read the stories, match "p", "u", "d", "c", else
\* parse the input as u32 and navigate when that is a key of stories, else None
EpicDetail_handle_input(store, epic_id, input) ==
    IF ~read_db(store).ok THEN InputErr(read_db(store).err) ELSE
    LET stories == read_db(store).state.stories
    IN  IF input = <<"p">> THEN InputOk(NavigateToPreviousPage)
        ELSE IF input = <<"u">> THEN InputOk(UpdateEpicStatusAction(epic_id))
        ELSE IF input = <<"d">> THEN InputOk(DeleteEpicAction(epic_id))
        ELSE IF input = <<"c">> THEN InputOk(CreateStoryAction(epic_id))
        ELSE IF parse_u32(input).ok /\ parse_u32(input).value \in DOMAIN stories
        THEN InputOk(NavigateToStoryDetail(epic_id, parse_u32(input).value))
        ELSE InputOk(None)

\* StoryDetail::handle_input reading the database first, as the other pages do
StoryDetail_handle_input_reads_db(store, epic_id, story_id, input) ==
    IF ~read_db(store).ok THEN InputErr(read_db(store).err) ELSE
    IF input = <<"p">> THEN InputOk(NavigateToPreviousPage)
    ELSE IF input = <<"u">> THEN InputOk(UpdateStoryStatusAction(story_id))
    ELSE IF input = <<"d">> THEN InputOk(DeleteStoryAction(epic_id, story_id))
    ELSE InputOk(None)

\* StoryDetail::handle_input that opens the story's epic on "c"
StoryDetail_handle_input_opens_epic(store, epic_id, story_id, input) ==
    IF input = <<"p">> THEN InputOk(NavigateToPreviousPage)
    ELSE IF input = <<"u">> THEN InputOk(UpdateStoryStatusAction(story_id))
    ELSE IF input = <<"d">> THEN InputOk(DeleteStoryAction(epic_id, story_id))
    ELSE IF input = <<"c">> THEN InputOk(NavigateToEpicDetail(epic_id))
    ELSE InputOk(None)

\* StoryDetail::handle_input: match "p", "u", "d", else None; self.db is not read
StoryDetail_handle_input(store, epic_id, story_id, input) ==
    IF input = <<"p">> THEN InputOk(NavigateToPreviousPage)
    ELSE IF input = <<"u">> THEN InputOk(UpdateStoryStatusAction(story_id))
    ELSE IF input = <<"d">> THEN InputOk(DeleteStoryAction(epic_id, story_id))
    ELSE InputOk(None)

\* page.handle_input(input) on a Box<dyn Page>
handle_input(page, store, input) ==
    CASE page.kind = "HomePage" -> HomePage_handle_input(store, input)
      [] page.kind = "EpicDetail" -> EpicDetail_handle_input(store, page.epic_id, input)
      [] page.kind = "StoryDetail" ->
            StoryDetail_handle_input(store, page.epic_id, page.story_id, input)

\* Result<()> of draw_page, or the panic of a HashMap index with a missing key
DrawOk == [ok |-> TRUE, err |-> "", panic |-> FALSE]
DrawErr(msg) == [ok |-> FALSE, err |-> msg, panic |-> FALSE]
DrawPanic == [ok |-> FALSE, err |-> "", panic |-> TRUE]

CouldNotFindEpic == "could not find epic!"
CouldNotFindStory == "could not find story!"

\* HomePage::draw_page: read the epics and print one row per key
HomePage_draw_page(store) ==
    IF ~read_db(store).ok THEN DrawErr(read_db(store).err) ELSE DrawOk

\* EpicDetail::draw_page: read, Err when the epic is absent, else print the
\* epic and one row per listed story, indexing stories with each listed ID
EpicDetail_draw_page(store, epic_id) ==
    IF ~read_db(store).ok THEN DrawErr(read_db(store).err) ELSE
    LET db_state == read_db(store).state
    IN  IF epic_id \notin DOMAIN db_state.epics
        THEN DrawErr(CouldNotFindEpic)
        ELSE IF \E id \in Elems(db_state.epics[epic_id].stories) :
                   id \notin DOMAIN db_state.stories
        THEN DrawPanic
        ELSE DrawOk

\* StoryDetail::draw_page finding the story through the page's epic
StoryDetail_draw_page_in_epic(store, epic_id, story_id) ==
    IF ~read_db(store).ok THEN DrawErr(read_db(store).err) ELSE
    LET db_state == read_db(store).state
    IN  IF \/ story_id \notin DOMAIN db_state.stories
           \/ epic_id \notin DOMAIN db_state.epics
        THEN DrawErr(CouldNotFindStory)
        ELSE DrawOk

\* StoryDetail::draw_page: read, Err when the story is absent, else print it
StoryDetail_draw_page(store, epic_id, story_id) ==
    IF ~read_db(store).ok THEN DrawErr(read_db(store).err) ELSE
    LET db_state == read_db(store).state
    IN  IF story_id \notin DOMAIN db_state.stories
        THEN DrawErr(CouldNotFindStory)
        ELSE DrawOk

\* page.draw_page() on a Box<dyn Page>
draw_page(page, store) ==
    CASE page.kind = "HomePage" -> HomePage_draw_page(store)
      [] page.kind = "EpicDetail" -> EpicDetail_draw_page(store, page.epic_id)
      [] page.kind = "StoryDetail" ->
            StoryDetail_draw_page(store, page.epic_id, page.story_id)

----------------------------------------------------------------------------
(* The navigator: the stack of pages main.rs drives, and the prompts        *)

\* Prompts: what the five prompt closures return when called
NoStatus == "None"
DefaultPrompts ==
    [create_epic |-> Epic_new("A", ""), create_story |-> Story_new("A", ""),
     delete_epic |-> FALSE, delete_story |-> FALSE, update_status |-> NoStatus]

\* push replacing the current page instead of stacking on it
Push_replace_top(stack, page) ==
    IF stack = <<>> THEN <<page>> ELSE [stack EXCEPT ![Len(stack)] = page]

Push(stack, page) == Append(stack, page)
Pop(stack) == IF stack = <<>> THEN <<>> ELSE SubSeq(stack, 1, Len(stack) - 1)

\* Navigator::new
Navigator_new == <<HomePage>>

\* Navigator::get_current_page: the top of the stack, if any
HasCurrentPage(stack) == stack # <<>>
get_current_page(stack) == stack[Len(stack)]

\* Result<()> of handle_action, with the stack and the write it leaves
NavOk(stack, saves) == [ok |-> TRUE, err |-> "", pages |-> stack, saves |-> saves]
NavErr(stack, msg) == [ok |-> FALSE, err |-> msg, pages |-> stack, saves |-> <<>>]

\* a store call whose success also takes the current page off the stack
WithStore_pop_on_success(stack, res, after) ==
    IF res.ok THEN NavOk(Pop(after), res.saves) ELSE NavErr(stack, res.err)

\* a store call whose failure still applies the stack effect
WithStore_effect_on_error(stack, res, after) ==
    IF res.ok THEN NavOk(after, res.saves) ELSE NavErr(after, res.err)

\* a store call made for an action: its error is returned and the stack is
\* left as it was, otherwise the stack becomes after
WithStore(stack, res, after) ==
    IF res.ok THEN NavOk(after, res.saves) ELSE NavErr(stack, res.err)

\* a delete that does not wait for the answer of its prompt
IfConfirmed_unasked(confirmed, stack, res) ==
    WithStore(stack, res, Pop(stack))

\* a delete that stays on the page when the prompt is declined
IfConfirmed_stay(confirmed, stack, res) ==
    IF ~confirmed
    THEN NavOk(stack, <<>>)
    ELSE WithStore(stack, res, Pop(stack))

\* a delete action: the store is called only when the prompt was confirmed;
\* the current page is left in both cases
IfConfirmed(confirmed, stack, res) ==
    IF ~confirmed
    THEN NavOk(Pop(stack), <<>>)
    ELSE WithStore(stack, res, Pop(stack))

\* a status update: the store is called only when the prompt gave a status
IfProvided(status, stack, res) ==
    IF status = NoStatus
    THEN NavOk(stack, <<>>)
    ELSE WithStore(stack, res, stack)

\* Exit leaving the home page on the stack
Clear_keep_home(stack) == IF stack = <<>> THEN <<>> ELSE <<stack[1]>>

\* Exit: the stack is cleared
Clear(stack) == <<>>

\* Navigator::handle_action
Navigator_handle_action(stack, store, action, prompts) ==
    CASE action.type = "NavigateToEpicDetail" ->
            NavOk(Push(stack, EpicDetail(action.epic_id)), <<>>)
      [] action.type = "NavigateToStoryDetail" ->
            NavOk(Push(stack, StoryDetail(action.epic_id, action.story_id)), <<>>)
      [] action.type = "NavigateToPreviousPage" ->
            NavOk(Pop(stack), <<>>)
      [] action.type = "CreateEpic" ->
            WithStore(stack, create_epic(store, prompts.create_epic), stack)
      [] action.type = "CreateStory" ->
            WithStore(stack, create_story(store, prompts.create_story, action.epic_id),
                      stack)
      [] action.type = "UpdateEpicStatus" ->
            IfProvided(prompts.update_status, stack,
                       update_epic_status(store, action.epic_id, prompts.update_status))
      [] action.type = "UpdateStoryStatus" ->
            IfProvided(prompts.update_status, stack,
                       update_story_status(store, action.story_id, prompts.update_status))
      [] action.type = "DeleteEpic" ->
            IfConfirmed(prompts.delete_epic, stack,
                        delete_epic(store, action.epic_id))
      [] action.type = "DeleteStory" ->
            IfConfirmed(prompts.delete_story, stack,
                        delete_story(store, action.epic_id, action.story_id))
      [] action.type = "Exit" ->
            NavOk(Clear(stack), <<>>)

----------------------------------------------------------------------------
(* The inputs of the calls                                                 *)

\* the IDs calls are made with: 0 is never allocated, the others may be live,
\* deleted or not yet allocated
Ids == 0..MaxId

\* the story lists an epic handed to create_epic carries: the empty list of
\* Epic::new, or a list naming an ID
InputStoryLists == {<<>>, <<2>>}

EpicInputs == {[Epic_new("A", "") EXCEPT !.stories = l] : l \in InputStoryLists}

\* Story::new, or a Story built with another status
StoryInputs == {[Story_new("A", "") EXCEPT !.status = s] : s \in {"Open", "Closed"}}

\* the statuses the update calls are made with
StatusInputs == {"Closed"}

----------------------------------------------------------------------------
(* One action per public operation of JiraDatabase, called by a client     *)

\* the call's effect on the store, and what the client keeps of it
Call(record, res) ==
    /\ db' = write_db(db, res.saves)
    /\ last' = [record EXCEPT !.res = res, !.pre = db]
    /\ UNCHANGED <<pages, pc, inst>>

Blank == [res |-> Err(""), pre |-> EmptyDBState]

\* creates are explored while last_item_id is below MaxId
CanCreate == Decodable(db) => db.last_item_id < MaxId

CreateEpic ==
    \E epic \in EpicInputs :
        /\ CanCreate
        /\ LET res == create_epic(db, epic)
           IN  /\ Call([op |-> "create_epic", epic |-> epic] @@ Blank, res)
               /\ returned' = IF res.ok THEN Append(returned, res.id) ELSE returned
        /\ plainEpics' = (plainEpics /\ epic.stories = <<>>)

CreateStory ==
    \E story \in StoryInputs, epic_id \in Ids :
        /\ CanCreate
        /\ LET res == create_story(db, story, epic_id)
           IN  /\ Call([op |-> "create_story", story |-> story, epic_id |-> epic_id]
                           @@ Blank, res)
               /\ returned' = IF res.ok THEN Append(returned, res.id) ELSE returned
        /\ UNCHANGED plainEpics

DeleteEpic ==
    \E epic_id \in Ids :
        /\ Call([op |-> "delete_epic", epic_id |-> epic_id] @@ Blank,
                delete_epic(db, epic_id))
        /\ UNCHANGED <<returned, plainEpics>>

DeleteStory ==
    \E epic_id \in Ids, story_id \in Ids :
        /\ Call([op |-> "delete_story", epic_id |-> epic_id, story_id |-> story_id]
                    @@ Blank,
                delete_story(db, epic_id, story_id))
        /\ UNCHANGED <<returned, plainEpics>>

UpdateEpicStatus ==
    \E epic_id \in Ids, status \in StatusInputs :
        /\ Call([op |-> "update_epic_status", epic_id |-> epic_id, status |-> status]
                    @@ Blank,
                update_epic_status(db, epic_id, status))
        /\ UNCHANGED <<returned, plainEpics>>

UpdateStoryStatus ==
    \E story_id \in Ids, status \in StatusInputs :
        /\ Call([op |-> "update_story_status", story_id |-> story_id, status |-> status]
                    @@ Blank,
                update_story_status(db, story_id, status))
        /\ UNCHANGED <<returned, plainEpics>>

----------------------------------------------------------------------------

\* the instances of the program that may run on one file, none in a call
Instances == {1, 2}
Idle == [pc |-> "idle", call |-> [op |-> "none"], loaded |-> EmptyDBState,
         res |-> Err("")]
NoCalls == [i \in Instances |-> Idle]

\* JiraDatabase over MockDB::new()
Init ==
    /\ db = EmptyDBState
    /\ last = [op |-> "new"] @@ Blank
    /\ returned = <<>>
    /\ plainEpics = TRUE
    /\ pages = Navigator_new
    /\ pc = "top"
    /\ inst = NoCalls

Next ==
    \/ CreateEpic
    \/ CreateStory
    \/ DeleteEpic
    \/ DeleteStory
    \/ UpdateEpicStatus
    \/ UpdateStoryStatus

Spec == Init /\ [][Next]_vars

\* The status updates with every Status as the new value, on stores built by
\* at most MaxStatusId creates of Epic::new / Story::new values
MaxStatusId == 2

StatusCreateEpic ==
    /\ db.last_item_id < MaxStatusId
    /\ LET res == create_epic(db, Epic_new("A", ""))
       IN  /\ Call([op |-> "create_epic", epic |-> Epic_new("A", "")] @@ Blank, res)
           /\ returned' = Append(returned, res.id)
    /\ UNCHANGED plainEpics

StatusCreateStory ==
    \E epic_id \in DOMAIN db.epics :
        /\ db.last_item_id < MaxStatusId
        /\ LET res == create_story(db, Story_new("A", ""), epic_id)
           IN  /\ Call([op |-> "create_story", story |-> Story_new("A", ""),
                        epic_id |-> epic_id] @@ Blank, res)
               /\ returned' = Append(returned, res.id)
        /\ UNCHANGED plainEpics

SetEpicStatus ==
    \E epic_id \in Ids, status \in Status :
        /\ Call([op |-> "update_epic_status", epic_id |-> epic_id, status |-> status]
                    @@ Blank,
                update_epic_status(db, epic_id, status))
        /\ UNCHANGED <<returned, plainEpics>>

SetStoryStatus ==
    \E story_id \in Ids, status \in Status :
        /\ Call([op |-> "update_story_status", story_id |-> story_id, status |-> status]
                    @@ Blank,
                update_story_status(db, story_id, status))
        /\ UNCHANGED <<returned, plainEpics>>

NextStatus ==
    \/ StatusCreateEpic
    \/ StatusCreateStory
    \/ SetEpicStatus
    \/ SetStoryStatus

SpecStatus == Init /\ [][NextStatus]_vars

\* JiraDatabase::new(file_path): the file may hold a DBState, be missing, or
\* hold something that is not the JSON of a DBState
InitFile ==
    /\ db \in {EmptyDBState} \cup BadStores
    /\ last = [op |-> "new"] @@ Blank
    /\ returned = <<>>
    /\ plainEpics = TRUE
    /\ pages = Navigator_new
    /\ pc = "top"
    /\ inst = NoCalls

SpecFile == InitFile /\ [][Next]_vars

----------------------------------------------------------------------------
(* The pages called on stores the operations above produce                  *)

StoreAfter(store, res) == write_db(store, res.saves)

\* what the file holds after some calls of the operations
OneEpic == StoreAfter(EmptyDBState, create_epic(EmptyDBState, Epic_new("A", "")))
OneStory == StoreAfter(OneEpic, create_story(OneEpic, Story_new("A", ""), 1))
TwoEpics == StoreAfter(OneStory, create_epic(OneStory, Epic_new("A", "")))
EpicGone == StoreAfter(OneEpic, delete_epic(OneEpic, 1))
ListedButMissing ==
    StoreAfter(EmptyDBState,
               create_epic(EmptyDBState, [Epic_new("A", "") EXCEPT !.stories = <<2>>]))
PageStores == {EmptyDBState, OneEpic, OneStory, TwoEpics, EpicGone, ListedButMissing}

PageIds == {1, 2, 3}
Pages ==
    {HomePage} \cup {EpicDetail(e) : e \in PageIds}
               \cup {StoryDetail(e, s) : e \in PageIds, s \in PageIds}

\* input lines of at most MaxInputLen characters
MaxInputLen == 2
Chars == {"q", "c", "p", "u", "d", "x", "+", "-", "\n"} \cup DigitChars
Inputs == UNION {[1..n -> Chars] : n \in 0..MaxInputLen}

HandleInput ==
    /\ last.op = "new"
    /\ \E page \in Pages, input \in Inputs :
        /\ last' = [op |-> "handle_input", page |-> page, input |-> input,
                    res |-> handle_input(page, db, input), pre |-> db]
        /\ UNCHANGED <<db, returned, plainEpics, pages, pc, inst>>

DrawPage ==
    /\ last.op = "new"
    /\ \E page \in Pages :
        /\ last' = [op |-> "draw_page", page |-> page,
                    res |-> draw_page(page, db), pre |-> db]
        /\ UNCHANGED <<db, returned, plainEpics, pages, pc, inst>>

\* the program started on a file earlier runs have written, or on a bad file
InitPages ==
    /\ db \in PageStores \cup BadStores
    /\ last = [op |-> "new"] @@ Blank
    /\ returned = <<>>
    /\ plainEpics = TRUE
    /\ pages = Navigator_new
    /\ pc = "top"
    /\ inst = NoCalls

NextPages ==
    \/ HandleInput
    \/ DrawPage

SpecPages == InitPages /\ [][NextPages]_vars

----------------------------------------------------------------------------
(* The navigator handed actions, as main.rs does while a page is current   *)

\* the IDs actions are made with, the stack depth and the creates explored
NavIds == {1, 2}
NavStoryIds == {2}
MaxDepth == 3
MaxNavId == 2
StatusPrompts == {NoStatus, "Closed"}

\* main.rs hands an action to the navigator while there is a current page
Apply(action, prompts) ==
    /\ HasCurrentPage(pages)
    /\ LET res == Navigator_handle_action(pages, db, action, prompts)
       IN  /\ pages' = res.pages
           /\ db' = write_db(db, res.saves)
           /\ last' = [op |-> "handle_action", action |-> action, prompts |-> prompts,
                       res |-> res, pre |-> db, pre_pages |-> pages]
    /\ UNCHANGED <<returned, plainEpics, pc, inst>>

CanCreateNav == Decodable(db) => db.last_item_id < MaxNavId

DoNavigateToEpicDetail ==
    /\ Len(pages) < MaxDepth
    /\ \E e \in NavIds : Apply(NavigateToEpicDetail(e), DefaultPrompts)

DoNavigateToStoryDetail ==
    /\ Len(pages) < MaxDepth
    /\ \E e \in NavIds, s \in NavStoryIds : Apply(NavigateToStoryDetail(e, s), DefaultPrompts)

DoNavigateToPreviousPage == Apply(NavigateToPreviousPage, DefaultPrompts)

DoCreateEpic == CanCreateNav /\ Apply(CreateEpicAction, DefaultPrompts)

DoCreateStory ==
    /\ CanCreateNav
    /\ \E e \in NavIds : Apply(CreateStoryAction(e), DefaultPrompts)

DoUpdateEpicStatus ==
    \E e \in NavIds, status \in StatusPrompts :
        Apply(UpdateEpicStatusAction(e), [DefaultPrompts EXCEPT !.update_status = status])

DoUpdateStoryStatus ==
    \E s \in NavStoryIds, status \in StatusPrompts :
        Apply(UpdateStoryStatusAction(s), [DefaultPrompts EXCEPT !.update_status = status])

DoDeleteEpic ==
    \E e \in NavIds, confirmed \in BOOLEAN :
        Apply(DeleteEpicAction(e), [DefaultPrompts EXCEPT !.delete_epic = confirmed])

DoDeleteStory ==
    \E e \in NavIds, s \in NavStoryIds, confirmed \in BOOLEAN :
        Apply(DeleteStoryAction(e, s), [DefaultPrompts EXCEPT !.delete_story = confirmed])

DoExit == Apply(Exit, DefaultPrompts)

InitNav ==
    /\ db \in {EmptyDBState} \cup BadStores
    /\ last = [op |-> "new"] @@ Blank
    /\ returned = <<>>
    /\ plainEpics = TRUE
    /\ pages = Navigator_new
    /\ pc = "top"
    /\ inst = NoCalls

NextNav ==
    \/ DoNavigateToEpicDetail
    \/ DoNavigateToStoryDetail
    \/ DoNavigateToPreviousPage
    \/ DoCreateEpic
    \/ DoCreateStory
    \/ DoUpdateEpicStatus
    \/ DoUpdateStoryStatus
    \/ DoDeleteEpic
    \/ DoDeleteStory
    \/ DoExit

SpecNav == InitNav /\ [][NextNav]_vars

----------------------------------------------------------------------------
(* main: the loop that draws the current page, reads a line, has the page   *)
(* handle it and hands the resulting action to the navigator                *)

WhiteSpace == {" ", "\n"}

\* str::trim: the line without its leading and trailing white space
RECURSIVE trim_start(_)
trim_start(line) ==
    IF line # <<>> /\ line[1] \in WhiteSpace THEN trim_start(Tail(line)) ELSE line

RECURSIVE trim_end(_)
trim_end(line) ==
    IF line # <<>> /\ line[Len(line)] \in WhiteSpace
    THEN trim_end(SubSeq(line, 1, Len(line) - 1))
    ELSE line

trim(line) == trim_end(trim_start(line))

\* the lines read_line returns: a command, a number or junk, ended by the
\* newline of the enter key, some with blanks around, and the empty line of
\* an input that has ended
LoopLines ==
    {<<c, "\n">> : c \in {"q", "c", "p", "u", "d", "x", "1", "2", "3"}}
        \cup {<<"\n">>, <<>>, <<" ", "q", " ", "\n">>, <<"q", "q", "\n">>}

\* what the prompts an action calls may return
PromptsFor(action) ==
    CASE action.type = "DeleteEpic" ->
            {[DefaultPrompts EXCEPT !.delete_epic = c] : c \in BOOLEAN}
      [] action.type = "DeleteStory" ->
            {[DefaultPrompts EXCEPT !.delete_story = c] : c \in BOOLEAN}
      [] action.type \in {"UpdateEpicStatus", "UpdateStoryStatus"} ->
            {[DefaultPrompts EXCEPT !.update_status = s] : s \in StatusPrompts}
      [] OTHER -> {DefaultPrompts}

\* the loop starting over after an error of draw_page, without reading a line
LoopDraw_continue_on_error ==
    /\ pc = "top"
    /\ HasCurrentPage(pages)
    /\ LET page == get_current_page(pages)
           res == draw_page(page, db)
       IN  /\ last' = [op |-> "draw_page", page |-> page, res |-> res,
                       pre |-> db, pre_pages |-> pages]
           /\ pc' = IF res.panic THEN "panicked" ELSE IF res.ok THEN "input" ELSE "top"
    /\ UNCHANGED <<db, returned, plainEpics, pages, inst>>

\* main.rs:29-33: the current page is drawn; an error is shown and the loop
\* goes on to read the input
LoopDraw ==
    /\ pc = "top"
    /\ HasCurrentPage(pages)
    /\ LET page == get_current_page(pages)
           res == draw_page(page, db)
       IN  /\ last' = [op |-> "draw_page", page |-> page, res |-> res,
                       pre |-> db, pre_pages |-> pages]
           /\ pc' = IF res.panic THEN "panicked" ELSE "input"
    /\ UNCHANGED <<db, returned, plainEpics, pages, inst>>

\* main.rs:51-53: no current page, break
LoopBreak ==
    /\ pc = "top"
    /\ ~HasCurrentPage(pages)
    /\ pc' = "done"
    /\ UNCHANGED <<db, last, returned, plainEpics, pages, inst>>

\* main.rs:35-43: a line is read and the page that was drawn handles it,
\* trimmed; an error is shown, and so is no action, and the loop starts over
LoopInput ==
    /\ pc = "input"
    /\ \E line \in LoopLines :
        LET page == last.page
            res == handle_input(page, db, trim(line))
        IN  /\ last' = [op |-> "handle_input", page |-> page, line |-> line,
                        input |-> trim(line), res |-> res, drawn |-> last.res,
                        pre |-> db, pre_pages |-> pages]
            /\ pc' = IF res.ok /\ res.action # None THEN "action" ELSE "top"
    /\ UNCHANGED <<db, returned, plainEpics, pages, inst>>

\* the IDs a run of the loop may allocate
MaxLoopId == 3
CanCreateLoop == Decodable(db) => db.last_item_id < MaxLoopId

\* main.rs:44-47: the action is handed to the navigator; an error is shown
\* and the loop starts over
LoopAction ==
    /\ pc = "action"
    /\ last.res.action.type \in {"CreateEpic", "CreateStory"} => CanCreateLoop
    /\ \E prompts \in PromptsFor(last.res.action) :
        LET action == last.res.action
            res == Navigator_handle_action(pages, db, action, prompts)
        IN  /\ pages' = res.pages
            /\ db' = write_db(db, res.saves)
            /\ last' = [op |-> "handle_action", page |-> last.page,
                        line |-> last.line, input |-> last.input,
                        action |-> action, prompts |-> prompts, res |-> res,
                        pre |-> db, pre_pages |-> pages]
    /\ pc' = "top"
    /\ UNCHANGED <<returned, plainEpics, inst>>

InitLoop ==
    /\ db \in {EmptyDBState} \cup BadStores
    /\ last = [op |-> "new"] @@ Blank
    /\ returned = <<>>
    /\ plainEpics = TRUE
    /\ pages = Navigator_new
    /\ pc = "top"
    /\ inst = NoCalls

NextLoop ==
    \/ LoopDraw
    \/ LoopBreak
    \/ LoopInput
    \/ LoopAction

SpecLoop == InitLoop /\ [][NextLoop]_vars

----------------------------------------------------------------------------
(* Two instances on one file: each call reads the file, and writes it later *)

\* the epic and the story the calls are about: the first two IDs assigned
TwoEpicId == 1
TwoStoryId == 2
MaxTwoId == 2

TwoCalls ==
    { [op |-> "create_epic", epic |-> Epic_new("A", "")],
      [op |-> "create_story", story |-> Story_new("A", ""), epic_id |-> TwoEpicId],
      [op |-> "delete_epic", epic_id |-> TwoEpicId],
      [op |-> "delete_story", epic_id |-> TwoEpicId, story_id |-> TwoStoryId],
      [op |-> "update_epic_status", epic_id |-> TwoEpicId, status |-> "Closed"],
      [op |-> "update_story_status", story_id |-> TwoStoryId, status |-> "Closed"] }

\* the operation of a call, on the DBState it has read
Run(call, store) ==
    CASE call.op = "create_epic" -> create_epic(store, call.epic)
      [] call.op = "create_story" -> create_story(store, call.story, call.epic_id)
      [] call.op = "delete_epic" -> delete_epic(store, call.epic_id)
      [] call.op = "delete_story" -> delete_story(store, call.epic_id, call.story_id)
      [] call.op = "update_epic_status" ->
            update_epic_status(store, call.epic_id, call.status)
      [] call.op = "update_story_status" ->
            update_story_status(store, call.story_id, call.status)

\* the first line of every operation: self.database.read_db()?
TwoLoad(i) ==
    /\ inst[i].pc = "idle"
    /\ \E call \in TwoCalls :
        /\ call.op \in {"create_epic", "create_story"} => db.last_item_id < MaxTwoId
        /\ inst' = [inst EXCEPT ![i] = [pc |-> "loaded", call |-> call,
                                        loaded |-> db, res |-> Err("")]]
    /\ UNCHANGED <<db, last, returned, plainEpics, pages, pc>>

\* a call that reads the file again right before it writes
TwoSave_rereads(i) ==
    /\ inst[i].pc = "loaded"
    /\ LET res == Run(inst[i].call, db)
       IN  /\ db' = write_db(db, res.saves)
           /\ inst' = [inst EXCEPT ![i].pc = "idle", ![i].res = res]
           /\ last' = [op |-> inst[i].call.op, instance |-> i, res |-> res, pre |-> db]
    /\ UNCHANGED <<returned, plainEpics, pages, pc>>

\* a save that keeps the entries of the file that the state written lacks
TwoSave_keeps_file_entries(i) ==
    /\ inst[i].pc = "loaded"
    /\ LET res == Run(inst[i].call, inst[i].loaded)
           new == write_db(db, res.saves)
       IN  /\ db' = [new EXCEPT !.epics = @ @@ db.epics, !.stories = @ @@ db.stories]
           /\ inst' = [inst EXCEPT ![i].pc = "idle", ![i].res = res]
           /\ last' = [op |-> inst[i].call.op, instance |-> i, res |-> res, pre |-> db]
    /\ UNCHANGED <<returned, plainEpics, pages, pc>>

\* a save that allocates the ID from the counter the file holds when it writes
TwoSave_counter_of_file(i) ==
    /\ inst[i].pc = "loaded"
    /\ LET res == Run(inst[i].call,
                      [inst[i].loaded EXCEPT !.last_item_id = db.last_item_id])
       IN  /\ db' = write_db(db, res.saves)
           /\ inst' = [inst EXCEPT ![i].pc = "idle", ![i].res = res]
           /\ last' = [op |-> inst[i].call.op, instance |-> i, res |-> res, pre |-> db]
    /\ UNCHANGED <<returned, plainEpics, pages, pc>>

\* the rest of the operation: the DBState read is changed and written, or the
\* error is returned
TwoSave(i) ==
    /\ inst[i].pc = "loaded"
    /\ LET res == Run(inst[i].call, inst[i].loaded)
       IN  /\ db' = write_db(db, res.saves)
           /\ inst' = [inst EXCEPT ![i].pc = "idle", ![i].res = res]
           /\ last' = [op |-> inst[i].call.op, instance |-> i, res |-> res, pre |-> db]
    /\ UNCHANGED <<returned, plainEpics, pages, pc>>

\* the two instances making creates only, up to a higher ID
MaxTwoCreateId == 3
TwoCreateCalls == {call \in TwoCalls : call.op \in {"create_epic", "create_story"}}

TwoLoadCreate(i) ==
    /\ inst[i].pc = "idle"
    /\ db.last_item_id < MaxTwoCreateId
    /\ \E call \in TwoCreateCalls :
        inst' = [inst EXCEPT ![i] = [pc |-> "loaded", call |-> call,
                                     loaded |-> db, res |-> Err("")]]
    /\ UNCHANGED <<db, last, returned, plainEpics, pages, pc>>

NextTwoCreate ==
    \/ \E i \in Instances : TwoLoadCreate(i)
    \/ \E i \in Instances : TwoSave(i)

SpecTwoCreate == Init /\ [][NextTwoCreate]_vars

NextTwo ==
    \/ \E i \in Instances : TwoLoad(i)
    \/ \E i \in Instances : TwoSave(i)

SpecTwo == Init /\ [][NextTwo]_vars

----------------------------------------------------------------------------
(* ui/pages/page_helpers.rs: get_column_string                             *)

\* A &str is modelled as the sequence of its chars.  The chars explored: two
\* of one byte in UTF-8, U+00E9 of two bytes, U+20AC of three, and the space
\* and the dot the function writes.
MaxTextLen == 3
MaxWidth == 6
TextChars == {"a", "b", "U+00E9", "U+20AC"}
Utf8Len(c) == CASE c = "U+00E9" -> 2 [] c = "U+20AC" -> 3 [] OTHER -> 1
Texts == UNION {[1..n -> TextChars] : n \in 0..MaxTextLen}
Widths == 0..MaxWidth

\* str::len: the length in bytes
RECURSIVE str_len(_)
str_len(text) ==
    IF text = <<>> THEN 0 ELSE Utf8Len(Head(text)) + str_len(Tail(text))

Spaces(n) == [k \in 1..n |-> " "]
Dots(n) == [k \in 1..n |-> "."]

\* ellipse::Ellipse::truncate_ellipse: the text itself when it has at most
\* len graphemes, else its first len graphemes and "..."
truncate_ellipse(text, len) ==
    IF Len(text) <= len THEN text ELSE SubSeq(text, 1, len) \o Dots(3)

\* a formatter that cuts longer text to the width when the width is below 4
get_column_string_cut(text, width) ==
    LET len == str_len(text)
    IN  IF len = width THEN text
        ELSE IF len < width THEN text \o Spaces(width - len)
        ELSE IF width \in 0..3 THEN SubSeq(text, 1, width)
        ELSE truncate_ellipse(text, width - 3)

get_column_string(text, width) ==
    LET len == str_len(text)
    IN  IF len = width THEN text
        ELSE IF len < width THEN text \o Spaces(width - len)
        ELSE IF width \in 0..3 THEN Dots(width)
        ELSE truncate_ellipse(text, width - 3)

GetColumnString ==
    /\ last.op = "new"
    /\ \E text \in Texts, width \in Widths :
        /\ last' = [op |-> "get_column_string", text |-> text, width |-> width,
                    res |-> get_column_string(text, width)]
        /\ UNCHANGED <<db, returned, plainEpics, pages, pc, inst>>

NextColumn ==
    \/ GetColumnString

SpecColumn == Init /\ [][NextColumn]_vars

----------------------------------------------------------------------------
(* The creates at the end of the u32 range                                  *)

\* A u32 is held here as the 32-bit integer with the same bits, the u32
\* values from 2^31 up being the negative integers: u32::MAX is -1, and the
\* n + 1 of NextId is the u32 sum modulo 2^32 that a build without overflow
\* checks computes.  U32Less is the order of the u32 values.
U32Max == -1
U32Less(a, b) == IF (a < 0) <=> (b < 0) THEN a < b ELSE b < 0

\* a build with overflow checks panics in last_item_id + 1 at u32::MAX
AddOverflowPanic ==
    [ok |-> FALSE, err |-> "attempt to add with overflow", id |-> 0, saves |-> <<>>,
     panic |-> TRUE]

\* files an earlier run has left: an epic under ID 1, and a counter that has
\* nearly or fully run through the u32 range
WrapCounters == {U32Max - 2, U32Max - 1, U32Max}
WrapStores == {[OneEpic EXCEPT !.last_item_id = c] : c \in WrapCounters}

\* creates are explored up to u32::MAX and, past it, while the counter is
\* below MaxWrapId
MaxWrapId == 2
CanCreateWrap == db.last_item_id \in WrapCounters \cup 0..(MaxWrapId - 1)

\* a create at the counter the file holds: at u32::MAX the sum panics or
\* wraps, as the build decides
WrapCall(record, res) ==
    \/ /\ db.last_item_id = U32Max
       /\ last' = [record EXCEPT !.res = AddOverflowPanic, !.pre = db]
       /\ pc' = "panicked"
       /\ UNCHANGED <<db, returned, plainEpics, pages, inst>>
    \/ /\ db' = write_db(db, res.saves)
       /\ last' = [record EXCEPT !.res = res, !.pre = db]
       /\ UNCHANGED <<returned, plainEpics, pages, pc, inst>>

WrapCreateEpic ==
    /\ pc = "top"
    /\ CanCreateWrap
    /\ WrapCall([op |-> "create_epic", epic |-> Epic_new("A", "")] @@ Blank,
                create_epic(db, Epic_new("A", "")))

WrapCreateStory ==
    /\ pc = "top"
    /\ CanCreateWrap
    /\ \E epic_id \in {U32Max, 0, 1} :
        WrapCall([op |-> "create_story", story |-> Story_new("A", ""),
                  epic_id |-> epic_id] @@ Blank,
                 create_story(db, Story_new("A", ""), epic_id))

WrapDeleteEpic ==
    /\ pc = "top"
    /\ \E epic_id \in {U32Max, 0, 1} :
        LET res == delete_epic(db, epic_id)
        IN  /\ db' = write_db(db, res.saves)
            /\ last' = [[op |-> "delete_epic", epic_id |-> epic_id] @@ Blank
                            EXCEPT !.res = res, !.pre = db]
    /\ UNCHANGED <<returned, plainEpics, pages, pc, inst>>

InitWrap ==
    /\ db \in WrapStores
    /\ last = [op |-> "new"] @@ Blank
    /\ returned = <<>>
    /\ plainEpics = TRUE
    /\ pages = Navigator_new
    /\ pc = "top"
    /\ inst = NoCalls

NextWrap ==
    \/ WrapCreateEpic
    \/ WrapCreateStory
    \/ WrapDeleteEpic

SpecWrap == InitWrap /\ [][NextWrap]_vars

----------------------------------------------------------------------------
(* Properties                                                              *)

\* the state a loadState after the last call returns
Loaded == read_db(db).state

Pre == last.pre

StoryList(state, e) == state.epics[e].stories

\* the places (epic, index) at which story s is listed
References(state, s) ==
    {p \in UNION {{<<e, i>> : i \in 1..Len(StoryList(state, e))} : e \in DOMAIN state.epics} :
        StoryList(state, p[1])[p[2]] = s}

Live(state) == (DOMAIN state.epics) \cup (DOMAIN state.stories)

\* C1 as stated: every ID in some epic's story list is a key of stories,
\* whatever epics were handed to create_epic
C1_AsStated ==
    \A e \in DOMAIN db.epics : Elems(StoryList(db, e)) \subseteq DOMAIN db.stories

\* C1, amended: when every epic was created with an empty story list, every ID
\* in some epic's story list is a key of stories
C1_ListedStoriesExist ==
    plainEpics =>
        \A e \in DOMAIN db.epics : Elems(StoryList(db, e)) \subseteq DOMAIN db.stories

C1_Witness ==
    /\ plainEpics
    /\ last.op = "delete_story" /\ last.res.ok
    /\ \E e \in DOMAIN db.epics : StoryList(db, e) # <<>>

\* C2 as stated: every key of stories is listed by exactly one epic, exactly
\* once, whatever epics were handed to create_epic
C2_AsStated ==
    \A s \in DOMAIN db.stories : Cardinality(References(db, s)) = 1

\* C2, amended: when every epic was created with an empty story list, every key
\* of stories is listed by exactly one epic, exactly once
C2_OneOwner ==
    plainEpics => \A s \in DOMAIN db.stories : Cardinality(References(db, s)) = 1

C2_Witness ==
    /\ plainEpics
    /\ last.op = "create_story" /\ last.res.ok
    /\ Cardinality(DOMAIN db.epics) >= 2

\* C3: create_story on a live epic returns last_item_id + 1; the state loaded
\* afterwards maps that ID to the story given, lists it under the epic, and has
\* last_item_id one higher
C3_CreateStory ==
    (last.op = "create_story" /\ last.epic_id \in DOMAIN Pre.epics) =>
        /\ last.res.ok
        /\ last.res.id = Pre.last_item_id + 1
        /\ last.res.id \in DOMAIN Loaded.stories
        /\ Loaded.stories[last.res.id] = last.story
        /\ last.epic_id \in DOMAIN Loaded.epics
        /\ last.res.id \in Elems(StoryList(Loaded, last.epic_id))
        /\ Loaded.last_item_id = Pre.last_item_id + 1

C3_Witness ==
    /\ last.op = "create_story" /\ last.res.ok
    /\ last.story.status = "Closed"
    /\ Pre.stories # <<>>

\* C4: create_story on an ID that is no key of epics fails with the epic's
\* NotFound error, and the state loaded afterwards is the state persisted
\* before the call: same last_item_id, same epics, same stories
C4_CreateStoryNoEpic ==
    (last.op = "create_story" /\ last.epic_id \notin DOMAIN Pre.epics) =>
        /\ ~last.res.ok
        /\ last.res.err = EpicNotFound
        /\ Loaded.last_item_id = Pre.last_item_id
        /\ Loaded.epics = Pre.epics
        /\ Loaded.stories = Pre.stories

C4_Witness ==
    /\ last.op = "create_story" /\ ~last.res.ok
    /\ Pre.epics # <<>>
    /\ Pre.stories # <<>>

\* C5: delete_epic on a live epic removes it from epics and every ID of its
\* story list from stories, and keeps last_item_id; on an absent ID it fails
\* with NotFound and the persisted state is unchanged
C5_DeleteEpic ==
    last.op = "delete_epic" =>
        IF last.epic_id \in DOMAIN Pre.epics
        THEN /\ last.res.ok
             /\ last.epic_id \notin DOMAIN db.epics
             /\ Elems(StoryList(Pre, last.epic_id)) \cap DOMAIN db.stories = {}
             /\ db.last_item_id = Pre.last_item_id
        ELSE /\ ~last.res.ok
             /\ last.res.err = EpicNotFound
             /\ db = Pre

C5_Witness ==
    /\ last.op = "delete_epic" /\ last.res.ok
    /\ Elems(StoryList(Pre, last.epic_id)) \cap DOMAIN Pre.stories # {}
    /\ db.epics # <<>>

\* C6: delete_story fails with NotFound and changes nothing when the epic is
\* not live or the story is not in that epic's list, also when the story is
\* live under another epic
C6_DeleteStoryNotListed ==
    (/\ last.op = "delete_story"
     /\ \/ last.epic_id \notin DOMAIN Pre.epics
        \/ last.story_id \notin Elems(StoryList(Pre, last.epic_id))) =>
        /\ ~last.res.ok
        /\ last.res.err = IF last.epic_id \in DOMAIN Pre.epics
                         THEN StoryNotInEpic ELSE EpicNotFound
        /\ db = Pre

C6_Witness ==
    /\ last.op = "delete_story" /\ ~last.res.ok
    /\ last.epic_id \in DOMAIN Pre.epics
    /\ last.story_id \in DOMAIN Pre.stories
    /\ \E e \in DOMAIN Pre.epics : last.story_id \in Elems(StoryList(Pre, e))

\* the call of delete_story that C7 is about
ListedStoryDeleted ==
    /\ last.op = "delete_story"
    /\ last.epic_id \in DOMAIN Pre.epics
    /\ last.story_id \in Elems(StoryList(Pre, last.epic_id))

\* C7 as stated: after delete_story on a listed story the story is in neither
\* the epic's list nor stories, the epic is kept, last_item_id is kept
C7_AsStated ==
    ListedStoryDeleted =>
        /\ last.res.ok
        /\ last.epic_id \in DOMAIN db.epics
        /\ last.story_id \notin Elems(StoryList(db, last.epic_id))
        /\ last.story_id \notin DOMAIN db.stories
        /\ db.last_item_id = Pre.last_item_id

\* C7, amended: delete_story on a listed story takes the first occurrence of
\* the ID out of the epic's list (the ID is then gone from the list when it
\* was listed once, as it is whenever every epic was created with an empty
\* list), removes the story from stories, keeps the epic and last_item_id
C7_DeleteStory ==
    ListedStoryDeleted =>
        /\ last.res.ok
        /\ last.epic_id \in DOMAIN db.epics
        /\ LET old == StoryList(Pre, last.epic_id)
               new == StoryList(db, last.epic_id)
           IN  /\ Len(new) = Len(old) - 1
               /\ \E i \in 1..Len(old) :
                    /\ old[i] = last.story_id
                    /\ \A j \in 1..(i - 1) : old[j] # last.story_id /\ new[j] = old[j]
                    /\ \A j \in i..Len(new) : new[j] = old[j + 1]
               /\ Cardinality({i \in 1..Len(old) : old[i] = last.story_id}) = 1
                    => last.story_id \notin Elems(new)
               /\ plainEpics => last.story_id \notin Elems(new)
        /\ last.story_id \notin DOMAIN db.stories
        /\ db.last_item_id = Pre.last_item_id

C7_Witness ==
    /\ ListedStoryDeleted
    /\ Len(StoryList(Pre, last.epic_id)) >= 2
    /\ last.story_id \in DOMAIN Pre.stories

\* C8: the IDs returned by the successful creates are strictly increasing in
\* call order, hence distinct, also across deletions
C8_IdsIncrease ==
    \A i, j \in 1..Len(returned) : i < j => returned[i] < returned[j]

C8_Witness ==
    /\ last.op = "create_epic" /\ last.res.ok
    /\ Len(returned) >= 3
    /\ \E i \in 1..Len(returned) : returned[i] \notin Live(db)

\* C9: last_item_id is at least every key of epics and of stories, and no
\* call, successful or failed, leaves it lower than it was
C9_CounterCoversKeys ==
    /\ \A k \in Live(db) : k <= db.last_item_id
    /\ db.last_item_id >= Pre.last_item_id

C9_Witness ==
    /\ last.op = "delete_epic" /\ last.res.ok
    /\ Live(db) # {}
    /\ \A k \in Live(db) : k < db.last_item_id

\* C10: no ID is a key of epics and a key of stories
C10_KeysDisjoint == (DOMAIN db.epics) \cap (DOMAIN db.stories) = {}

C10_Witness ==
    /\ last.op = "create_epic" /\ last.res.ok
    /\ db.stories # <<>>
    /\ Cardinality(DOMAIN db.epics) >= 2

\* C11: create_epic returns last_item_id + 1, persists it as last_item_id, and
\* stores the epic exactly as given, story list included; the other epics and
\* all stories are unchanged
C11_CreateEpic ==
    last.op = "create_epic" =>
        /\ last.res.ok
        /\ last.res.id = Pre.last_item_id + 1
        /\ db.last_item_id = last.res.id
        /\ DOMAIN db.epics = (DOMAIN Pre.epics) \cup {last.res.id}
        /\ db.epics[last.res.id] = last.epic
        /\ \A e \in (DOMAIN Pre.epics) \ {last.res.id} : db.epics[e] = Pre.epics[e]
        /\ db.stories = Pre.stories

C11_Witness ==
    /\ last.op = "create_epic" /\ last.res.ok
    /\ last.epic.stories # <<>>
    /\ Pre.epics # <<>>
    /\ Pre.stories # <<>>

\* the calls that change the DBState when they succeed
Mutations ==
    {"create_epic", "create_story", "delete_epic", "delete_story",
     "update_epic_status", "update_story_status"}

C14_LoadFailure ==
    (last.op \in Mutations /\ ~Decodable(Pre)) =>
        /\ ~last.res.ok
        /\ last.res.err = Pre.error
        /\ last.res.saves = <<>>
        /\ db = Pre

C14_Witness ==
    /\ last.op = "create_epic"
    /\ Pre = InvalidJson
    /\ db = InvalidJson

\* C12: update_epic_status and update_story_status return the not-found error
\* and leave the state as it was when the ID is absent; otherwise they succeed
\* whatever the current and the new status are, and the only thing that
\* differs afterwards is the status field of that one item
C12_UpdateStatus ==
    /\ last.op = "update_epic_status" =>
         IF last.epic_id \notin DOMAIN Pre.epics
         THEN ~last.res.ok /\ last.res.err = EpicNotFound /\ db = Pre
         ELSE /\ last.res.ok
              /\ db.last_item_id = Pre.last_item_id
              /\ db.stories = Pre.stories
              /\ DOMAIN db.epics = DOMAIN Pre.epics
              /\ \A e \in DOMAIN Pre.epics :
                    /\ db.epics[e].name = Pre.epics[e].name
                    /\ db.epics[e].description = Pre.epics[e].description
                    /\ db.epics[e].stories = Pre.epics[e].stories
                    /\ db.epics[e].status =
                          IF e = last.epic_id THEN last.status ELSE Pre.epics[e].status
    /\ last.op = "update_story_status" =>
         IF last.story_id \notin DOMAIN Pre.stories
         THEN ~last.res.ok /\ last.res.err = StoryNotFound /\ db = Pre
         ELSE /\ last.res.ok
              /\ db.last_item_id = Pre.last_item_id
              /\ db.epics = Pre.epics
              /\ DOMAIN db.stories = DOMAIN Pre.stories
              /\ \A s \in DOMAIN Pre.stories :
                    /\ db.stories[s].name = Pre.stories[s].name
                    /\ db.stories[s].description = Pre.stories[s].description
                    /\ db.stories[s].status =
                          IF s = last.story_id THEN last.status ELSE Pre.stories[s].status

\* a closed story is reopened
C12_Witness ==
    /\ last.op = "update_story_status" /\ last.res.ok
    /\ Pre.stories[last.story_id].status = "Closed"
    /\ last.status = "Open"
    /\ db.stories[last.story_id].status = "Open"

\* the page call a state records, on a store that loads
InputHandled(kind) ==
    last.op = "handle_input" /\ last.page.kind = kind /\ Decodable(Pre)

Parsed == parse_u32(last.input)

\* C15: HomePage::handle_input returns Exit for "q" only, CreateEpic for "c"
\* only, NavigateToEpicDetail(id) for an input that parses as the u32 of a live
\* epic, and None for every other input
C15_HomeInput ==
    InputHandled("HomePage") =>
        /\ last.res.ok
        /\ last.res.action =
             IF last.input = <<"q">> THEN Exit
             ELSE IF last.input = <<"c">> THEN CreateEpicAction
             ELSE IF Parsed.ok /\ Parsed.value \in DOMAIN Pre.epics
             THEN NavigateToEpicDetail(Parsed.value)
             ELSE None
        /\ last.res.action = Exit <=> last.input = <<"q">>
        /\ last.res.action = CreateEpicAction <=> last.input = <<"c">>

\* a command letter followed by a newline is no command
C15_Witness ==
    /\ InputHandled("HomePage")
    /\ last.input = <<"q", "\n">>
    /\ last.res = InputOk(None)
    /\ Pre.epics # <<>>

\* C16: EpicDetail::handle_input returns NavigateToPreviousPage,
\* UpdateEpicStatus, DeleteEpic, CreateStory of its epic for "p", "u", "d",
\* "c"; NavigateToStoryDetail(e, s) for an input that parses as a u32 s exactly
\* when s is a key of stories, in the epic's list or not; None otherwise
C16_EpicInput ==
    InputHandled("EpicDetail") =>
        LET e == last.page.epic_id
        IN  /\ last.res.ok
            /\ last.res.action =
                 IF last.input = <<"p">> THEN NavigateToPreviousPage
                 ELSE IF last.input = <<"u">> THEN UpdateEpicStatusAction(e)
                 ELSE IF last.input = <<"d">> THEN DeleteEpicAction(e)
                 ELSE IF last.input = <<"c">> THEN CreateStoryAction(e)
                 ELSE IF Parsed.ok /\ Parsed.value \in DOMAIN Pre.stories
                 THEN NavigateToStoryDetail(e, Parsed.value)
                 ELSE None
            /\ last.res.action.type = "NavigateToStoryDetail"
                 <=> (Parsed.ok /\ Parsed.value \in DOMAIN Pre.stories)

\* the page of one epic navigates to a story of another epic
C16_Witness ==
    /\ InputHandled("EpicDetail")
    /\ last.page.epic_id \in DOMAIN Pre.epics
    /\ Parsed.ok
    /\ Parsed.value \notin Elems(Pre.epics[last.page.epic_id].stories)
    /\ last.res = InputOk(NavigateToStoryDetail(last.page.epic_id, Parsed.value))

\* C17: StoryDetail::handle_input returns NavigateToPreviousPage for "p",
\* UpdateStoryStatus(s) for "u", DeleteStory(e, s) for "d" and None for every
\* other input, numbers included, whatever the store holds or fails with
C17_StoryInput ==
    (last.op = "handle_input" /\ last.page.kind = "StoryDetail") =>
        /\ last.res.ok
        /\ last.res.action =
             IF last.input = <<"p">> THEN NavigateToPreviousPage
             ELSE IF last.input = <<"u">> THEN UpdateStoryStatusAction(last.page.story_id)
             ELSE IF last.input = <<"d">>
             THEN DeleteStoryAction(last.page.epic_id, last.page.story_id)
             ELSE None

\* the ID of a live story, typed on a story page
C17_Witness ==
    /\ InputHandled("StoryDetail")
    /\ Parsed.ok /\ Parsed.value \in DOMAIN Pre.stories
    /\ last.res = InputOk(None)

\* C18 as stated: handle_input returns Ok for every page, every input and
\* every condition of the store
C18_AsStated ==
    last.op = "handle_input" => last.res.ok

\* C18, amended: handle_input returns Ok for every page and every input when
\* the store loads; when it does not load, HomePage and EpicDetail return the
\* load error and StoryDetail still returns Ok
C18_InputOkWhenLoaded ==
    last.op = "handle_input" =>
        IF Decodable(Pre) \/ last.page.kind = "StoryDetail"
        THEN last.res.ok
        ELSE last.res = InputErr(Pre.error)

\* junk typed on the page of an epic that is gone
C18_Witness ==
    /\ InputHandled("EpicDetail")
    /\ last.page.epic_id \notin DOMAIN Pre.epics
    /\ ~Parsed.ok
    /\ last.res = InputOk(None)

PageDrawn(kind) ==
    last.op = "draw_page" /\ last.page.kind = kind /\ Decodable(Pre)

\* C19: on a store that loads, EpicDetail::draw_page returns the not-found
\* error exactly when its epic_id is no key of epics, StoryDetail::draw_page
\* returns it exactly when its story_id is no key of stories, whatever its
\* epic_id is, and HomePage::draw_page returns Ok
C19_DrawPage ==
    /\ PageDrawn("EpicDetail") =>
         (last.res = DrawErr(CouldNotFindEpic)
            <=> last.page.epic_id \notin DOMAIN Pre.epics)
    /\ PageDrawn("StoryDetail") =>
         /\ last.res = DrawErr(CouldNotFindStory)
              <=> last.page.story_id \notin DOMAIN Pre.stories
         /\ last.page.story_id \in DOMAIN Pre.stories => last.res = DrawOk
    /\ PageDrawn("HomePage") => last.res = DrawOk

\* the page of a live story under an epic_id that is no epic is drawn
C19_Witness ==
    /\ PageDrawn("StoryDetail")
    /\ last.page.story_id \in DOMAIN Pre.stories
    /\ last.page.epic_id \notin DOMAIN Pre.epics
    /\ last.res = DrawOk

\* the action a state records as handed to the navigator
Handled(type) == last.op = "handle_action" /\ last.action.type = type

\* C20: the stack starts as [HomePage]; NavigateToEpicDetail and
\* NavigateToStoryDetail put exactly the EpicDetail / StoryDetail page of their
\* IDs on top of the stack as it was, NavigateToPreviousPage takes exactly the
\* top page off, and none of the three changes what is persisted
C20_Navigation ==
    /\ last.op = "new" => pages = <<HomePage>>
    /\ Handled("NavigateToEpicDetail") =>
         /\ last.res.ok
         /\ pages = last.pre_pages \o <<EpicDetail(last.action.epic_id)>>
         /\ db = Pre
    /\ Handled("NavigateToStoryDetail") =>
         /\ last.res.ok
         /\ pages = last.pre_pages
                      \o <<StoryDetail(last.action.epic_id, last.action.story_id)>>
         /\ db = Pre
    /\ Handled("NavigateToPreviousPage") =>
         /\ last.res.ok
         /\ Len(pages) = Len(last.pre_pages) - 1
         /\ \A i \in 1..Len(pages) : pages[i] = last.pre_pages[i]
         /\ db = Pre

\* a story page is pushed on an epic page while the store holds an epic
C20_Witness ==
    /\ Handled("NavigateToStoryDetail")
    /\ Len(last.pre_pages) = 2
    /\ pages = last.pre_pages
                 \o <<StoryDetail(last.action.epic_id, last.action.story_id)>>
    /\ Decodable(db) /\ db.epics # <<>>

\* C21: Exit leaves the stack empty, whatever its depth was, and does not
\* change what is persisted; the navigator then has no current page
C21_Exit ==
    Handled("Exit") =>
        /\ last.res.ok
        /\ pages = <<>>
        /\ ~HasCurrentPage(pages)
        /\ db = Pre

\* Exit from three pages deep, with an epic in the store
C21_Witness ==
    /\ Handled("Exit")
    /\ Len(last.pre_pages) >= 3
    /\ pages = <<>>
    /\ Decodable(db) /\ db.epics # <<>>

\* the actions that create or update, and never move between pages
StayingActions == {"CreateEpic", "CreateStory", "UpdateEpicStatus", "UpdateStoryStatus"}

\* C22: CreateEpic, CreateStory, UpdateEpicStatus and UpdateStoryStatus leave
\* the stack as it was, whether the store call succeeded, failed or was not made
C22_StackKept ==
    (last.op = "handle_action" /\ last.action.type \in StayingActions) =>
        pages = last.pre_pages

\* a story is created from an epic page, and the stack stays two deep
C22_Witness ==
    /\ Handled("CreateStory")
    /\ last.res.ok
    /\ db # Pre
    /\ Len(last.pre_pages) = 2
    /\ pages = last.pre_pages

\* the prompt of the action a state records declined, or gave no status
Declined ==
    \/ Handled("DeleteEpic") /\ ~last.prompts.delete_epic
    \/ Handled("DeleteStory") /\ ~last.prompts.delete_story

NotProvided ==
    /\ Handled("UpdateEpicStatus") \/ Handled("UpdateStoryStatus")
    /\ last.prompts.update_status = NoStatus

\* C23: a delete whose prompt was declined and a status update whose prompt
\* gave no status write nothing: the persisted state is the one before
C23_NoMutationUnasked ==
    (Declined \/ NotProvided) =>
        /\ last.res.ok
        /\ last.res.saves = <<>>
        /\ db = Pre

\* the delete of a live epic is declined
C23_Witness ==
    /\ Handled("DeleteEpic")
    /\ ~last.prompts.delete_epic
    /\ Decodable(Pre) /\ last.action.epic_id \in DOMAIN Pre.epics
    /\ db = Pre

\* the stack is the one before the action without its top page
Popped ==
    /\ Len(pages) = Len(last.pre_pages) - 1
    /\ \A i \in 1..Len(pages) : pages[i] = last.pre_pages[i]

\* C24: DeleteEpic and DeleteStory take the top page off the stack when the
\* prompt was declined as they do after a delete that succeeded; after a
\* declined delete the persisted state is unchanged
C24_DeletePops ==
    (Handled("DeleteEpic") \/ Handled("DeleteStory")) =>
        /\ Declined => Popped /\ db = Pre
        /\ (~Declined /\ last.res.ok) => Popped

\* the delete of a live story of the epic is declined on its story page
C24_Witness ==
    /\ Handled("DeleteStory")
    /\ ~last.prompts.delete_story
    /\ Decodable(Pre) /\ last.action.epic_id \in DOMAIN Pre.epics
    /\ last.action.story_id \in Elems(Pre.epics[last.action.epic_id].stories)
    /\ Len(last.pre_pages) = 3
    /\ Len(pages) = 2
    /\ db = Pre

\* the JiraDatabase call the action of a state makes, if it makes one
CallsStore ==
    /\ last.op = "handle_action"
    /\ \/ last.action.type \in {"CreateEpic", "CreateStory"}
       \/ /\ last.action.type \in {"UpdateEpicStatus", "UpdateStoryStatus"}
          /\ last.prompts.update_status # NoStatus
       \/ Handled("DeleteEpic") /\ last.prompts.delete_epic
       \/ Handled("DeleteStory") /\ last.prompts.delete_story

StoreCall ==
    CASE Handled("CreateEpic") -> create_epic(Pre, last.prompts.create_epic)
      [] Handled("CreateStory") ->
            create_story(Pre, last.prompts.create_story, last.action.epic_id)
      [] Handled("UpdateEpicStatus") ->
            update_epic_status(Pre, last.action.epic_id, last.prompts.update_status)
      [] Handled("UpdateStoryStatus") ->
            update_story_status(Pre, last.action.story_id, last.prompts.update_status)
      [] Handled("DeleteEpic") -> delete_epic(Pre, last.action.epic_id)
      [] Handled("DeleteStory") ->
            delete_story(Pre, last.action.epic_id, last.action.story_id)

\* C25: when the JiraDatabase call of an action fails, handle_action returns
\* that error and the stack is the one before the action, also for a confirmed
\* DeleteEpic or DeleteStory; nothing was written
C25_StackKeptOnError ==
    (CallsStore /\ ~StoreCall.ok) =>
        /\ ~last.res.ok
        /\ last.res.err = StoreCall.err
        /\ pages = last.pre_pages
        /\ db = Pre

\* a confirmed delete of a story the epic does not list, from a story page
C25_Witness ==
    /\ Handled("DeleteStory")
    /\ last.prompts.delete_story
    /\ last.res.err = StoryNotInEpic
    /\ Len(last.pre_pages) = 3
    /\ pages = last.pre_pages

\* C26: in the loop started on [HomePage], the stack is empty only after an
\* Exit was handed to the navigator; the pops of NavigateToPreviousPage and of
\* the delete actions the pages produce never take the last page off
C26_EmptyOnlyByExit ==
    pages = <<>> => Handled("Exit")

\* the loop has stopped on an empty stack after Exit, with items created before
C26_Witness ==
    /\ pc = "done"
    /\ pages = <<>>
    /\ Handled("Exit")
    /\ Decodable(db) /\ db.last_item_id > 0

\* C27: the loop has stopped only if there is no current page, and with no
\* current page it stops; after an error of draw_page a line is still read
\* and handled by the page that was drawn; after an error of handle_input or
\* of handle_action the loop is at its top again with the current page
C27_LoopGoesOn ==
    /\ pc \in {"done", "panicked"} => ~HasCurrentPage(pages)
    /\ pc = "top" =>
         IF HasCurrentPage(pages) THEN ENABLED LoopDraw ELSE ENABLED LoopBreak
    /\ (last.op = "draw_page" /\ ~last.res.ok) =>
         /\ pc = "input"
         /\ pages = last.pre_pages
         /\ ENABLED LoopInput
    /\ last.op = "handle_input" =>
         /\ last.page = get_current_page(last.pre_pages)
         /\ pages = last.pre_pages
         /\ ~last.res.ok => pc = "top"
    /\ (last.op = "handle_action" /\ ~last.res.ok) =>
         /\ pc = "top"
         /\ pages = last.pre_pages
         /\ HasCurrentPage(pages)

\* draw_page failed, and the line read after it was handled by that page
C27_Witness ==
    /\ last.op = "handle_input"
    /\ ~last.drawn.ok
    /\ last.page = get_current_page(pages)
    /\ pc = "top"

\* an iteration of the loop that started on the home page and read "q" is over
QuitTyped ==
    /\ pc \in {"top", "done"}
    /\ last.op \in {"handle_input", "handle_action"}
    /\ last.page = HomePage
    /\ last.input = <<"q">>

\* C30 as stated: after "q" on the home page the stack is empty, whatever the
\* store holds
C30_AsStated ==
    QuitTyped => pages = <<>>

\* C30, amended: after "q" on the home page the stack is empty and the loop
\* stops when the store loads; when it does not load, handle_input returns
\* the load error, no action results and the home page stays current
C30_QuitWhenLoaded ==
    QuitTyped =>
        IF Decodable(Pre)
        THEN /\ Handled("Exit")
             /\ pages = <<>>
             /\ pc = "top" => ENABLED LoopBreak
        ELSE /\ last.res = InputErr(Pre.error)
             /\ pages = <<HomePage>>
             /\ pc = "top"

\* the loop has stopped after "q", typed with blanks around it
C30_Witness ==
    /\ QuitTyped
    /\ pc = "done"
    /\ pages = <<>>
    /\ Decodable(db) /\ db.epics # <<>>

\* both instances have returned Ok from calls that read the same DBState,
\* and instance j wrote last
BothFromOneRead(i, j) ==
    /\ i # j
    /\ inst[i].pc = "idle" /\ inst[j].pc = "idle"
    /\ inst[i].call.op # "none" /\ inst[j].call.op # "none"
    /\ inst[i].res.ok /\ inst[j].res.ok
    /\ inst[i].loaded = inst[j].loaded
    /\ last.instance = j

\* C28: when two instances have read the same DBState and both calls
\* returned Ok, the file holds what the later writer made of the state it
\* read: the earlier writer's operation is not in it
C28_LastWriterWins ==
    \A i \in Instances, j \in Instances :
        BothFromOneRead(i, j) =>
            db = StoreAfter(inst[j].loaded, Run(inst[j].call, inst[j].loaded))

\* a story was created and returned, and the status update that wrote after
\* it has removed it from the file
C28_Witness ==
    \E i \in Instances, j \in Instances :
        /\ BothFromOneRead(i, j)
        /\ inst[i].call.op = "create_story"
        /\ inst[j].call.op = "update_epic_status"
        /\ inst[i].res.id \notin DOMAIN db.stories
        /\ inst[i].res.id \notin Elems(db.epics[inst[i].call.epic_id].stories)
        /\ db.epics[inst[j].call.epic_id].status = "Closed"

\* C29: get_column_string(text, width) is text when text has width
\* characters, text padded with spaces to width when it has fewer, the first
\* width-3 characters and three dots when it has more and width >= 4; and in
\* every case, widths 0..3 with longer text included, the result has exactly
\* width characters
C29_AsStated ==
    last.op = "get_column_string" =>
        LET text == last.text
            width == last.width
            res == last.res
        IN  /\ Len(text) = width => res = text
            /\ Len(text) < width => res = text \o Spaces(width - Len(text))
            /\ (Len(text) > width /\ width >= 4) =>
                    res = SubSeq(text, 1, width - 3) \o Dots(3)
            /\ Len(res) = width

\* HomePage::handle_input was called on a store that loads and has epic 3
HomeWithEpic3 == InputHandled("HomePage") /\ 3 \in DOMAIN Pre.epics

\* C31 as stated: on the Home screen with live epic 3, "3" yields
\* NavigateToEpicDetail(3), and "03" and the empty input yield no action
C31_AsStated ==
    HomeWithEpic3 =>
        /\ last.input = <<"3">> => last.res = InputOk(NavigateToEpicDetail(3))
        /\ last.input = <<"0", "3">> => last.res = InputOk(None)
        /\ last.input = <<>> => last.res = InputOk(None)

\* C31: on the Home screen with live epic 3, "3" and "03" both yield
\* NavigateToEpicDetail(3), and the empty input yields no action
C31_LeadingZeroNavigates ==
    HomeWithEpic3 =>
        /\ last.input = <<"3">> => last.res = InputOk(NavigateToEpicDetail(3))
        /\ last.input = <<"0", "3">> => last.res = InputOk(NavigateToEpicDetail(3))
        /\ last.input = <<>> => last.res = InputOk(None)

\* "03" was typed on the Home screen while epic 3 was live
C31_Witness ==
    /\ HomeWithEpic3
    /\ last.input = <<"0", "3">>
    /\ last.res.ok /\ last.res.action.type = "NavigateToEpicDetail"

ColumnCall == last.op = "get_column_string"

C33_StackShape ==
    pages # <<>> =>
        /\ Len(pages) <= 3
        /\ pages[1] = HomePage
        /\ Len(pages) >= 2 => pages[2].kind = "EpicDetail"
        /\ Len(pages) = 3 =>
              /\ pages[3].kind = "StoryDetail"
              /\ pages[3].epic_id = pages[2].epic_id

\* the loop stands on a story page, three pages deep
C33_Witness ==
    /\ pc = "top"
    /\ Len(pages) = 3
    /\ get_current_page(pages) = StoryDetail(1, 2)

\* the entity a page shows is in the store
PageLive(page, store) ==
    CASE page.kind = "HomePage" -> TRUE
      [] page.kind = "EpicDetail" -> page.epic_id \in DOMAIN store.epics
      [] page.kind = "StoryDetail" -> page.story_id \in DOMAIN store.stories

\* C34: in a run of the loop on a store that loads, every page on the stack
\* shows a live entity, so every page drawn is drawn without an error
C34_RenderedLive ==
    /\ Decodable(db) => \A k \in 1..Len(pages) : PageLive(pages[k], db)
    /\ (last.op = "draw_page" /\ Decodable(Pre)) =>
          /\ PageLive(last.page, Pre)
          /\ last.res = DrawOk

\* an epic page is drawn after something was deleted
C34_Witness ==
    /\ last.op = "draw_page" /\ Decodable(Pre)
    /\ last.page.kind = "EpicDetail"
    /\ last.res = DrawOk
    /\ Pre.last_item_id > Cardinality(DOMAIN Pre.epics \cup DOMAIN Pre.stories)

\* story s is live and epic e is live, and e's list does not name s
Foreign(store, e, s) ==
    /\ Decodable(store)
    /\ s \in DOMAIN store.stories
    /\ e \in DOMAIN store.epics
    /\ s \notin Elems(store.epics[e].stories)

\* C35: EpicDetail(e) given the ID s of a live story of another epic yields
\* NavigateToStoryDetail(e, s), and a confirmed DeleteStory(e, s) fails with
\* the story-not-found error and leaves the store as it was
C35_ForeignStoryStays ==
    /\ (/\ last.op = "handle_input" /\ last.page.kind = "EpicDetail"
        /\ Parsed.ok /\ Foreign(Pre, last.page.epic_id, Parsed.value)) =>
          last.res = InputOk(NavigateToStoryDetail(last.page.epic_id, Parsed.value))
    /\ (/\ Handled("DeleteStory") /\ last.prompts.delete_story
        /\ Foreign(Pre, last.action.epic_id, last.action.story_id)) =>
          /\ ~last.res.ok
          /\ last.res.err = StoryNotInEpic
          /\ db = Pre
          /\ last.action.story_id \in DOMAIN db.stories

\* the delete of story 3 of epic 2 was confirmed on StoryDetail(1, 3) and
\* failed; the page is still the current one
C35_Witness ==
    /\ Handled("DeleteStory") /\ last.prompts.delete_story
    /\ last.action = DeleteStoryAction(1, 3)
    /\ Foreign(Pre, 1, 3)
    /\ 3 \in Elems(Pre.epics[2].stories)
    /\ ~last.res.ok
    /\ pages = <<HomePage, EpicDetail(1), StoryDetail(1, 3)>>

Increasing(list) == \A i, j \in 1..Len(list) : i < j => list[i] < list[j]

\* C36: when every epic was created with an empty story list, every epic's
\* story list is strictly increasing, hence without a repeated ID;
\* create_story appends the new ID, larger than all listed, at the end, and
\* delete_story leaves the other IDs in their order
C36_ListsIncrease ==
    plainEpics =>
        /\ \A e \in DOMAIN db.epics : Increasing(StoryList(db, e))
        /\ (last.op = "create_story" /\ last.res.ok) =>
              /\ StoryList(db, last.epic_id) =
                    Append(StoryList(Pre, last.epic_id), last.res.id)
              /\ \A s \in Elems(StoryList(Pre, last.epic_id)) : s < last.res.id
        /\ (last.op = "delete_story" /\ last.res.ok) =>
              StoryList(db, last.epic_id) =
                  SelectSeq(StoryList(Pre, last.epic_id),
                            LAMBDA s : s # last.story_id)

\* a second story has been appended to an epic's list
C36_Witness ==
    /\ plainEpics
    /\ last.op = "create_story" /\ last.res.ok
    /\ Len(StoryList(db, last.epic_id)) = 2
    /\ StoryList(db, last.epic_id)[2] = last.res.id

\* the IDs epic e lists in the state before the call
ListedBefore(e) == IF e \in DOMAIN Pre.epics THEN Elems(StoryList(Pre, e)) ELSE {}

\* C37: create_story(s, e), delete_story(e, x) and delete_epic(e) leave every
\* epic other than e, and every story that e does not list, as they were;
\* nothing is added but the new story of a successful create_story
C37_Frame ==
    last.op \in {"create_story", "delete_story", "delete_epic"} =>
        /\ \A e \in DOMAIN Pre.epics \ {last.epic_id} :
              e \in DOMAIN db.epics /\ db.epics[e] = Pre.epics[e]
        /\ DOMAIN db.epics \subseteq DOMAIN Pre.epics
        /\ \A s \in DOMAIN Pre.stories \ ListedBefore(last.epic_id) :
              s \in DOMAIN db.stories /\ db.stories[s] = Pre.stories[s]
        /\ DOMAIN db.stories \ DOMAIN Pre.stories \subseteq
              IF last.op = "create_story" /\ last.res.ok THEN {last.res.id} ELSE {}

\* an epic was deleted while another epic had a story
C37_Witness ==
    /\ last.op = "delete_epic" /\ last.res.ok
    /\ db.stories # <<>>
    /\ \E e \in DOMAIN db.epics : StoryList(db, e) # <<>>

\* C38: with two instances interleaving their reads and writes, and every
\* epic created with an empty story list, every state of the file has each
\* listed story ID as a key of stories, each story in exactly one epic's
\* list, no ID as a key of both maps, and last_item_id at least every key
C38_TwoStructure ==
    /\ \A e \in DOMAIN db.epics : Elems(StoryList(db, e)) \subseteq DOMAIN db.stories
    /\ \A s \in DOMAIN db.stories : Cardinality(References(db, s)) = 1
    /\ DOMAIN db.epics \cap DOMAIN db.stories = {}
    /\ \A k \in Live(db) : k <= db.last_item_id

\* an epic and a story were created from one read under the same ID, the
\* story written last
C38_Witness ==
    \E i \in Instances, j \in Instances :
        /\ BothFromOneRead(i, j)
        /\ inst[i].call.op = "create_epic"
        /\ inst[j].call.op = "create_story"
        /\ inst[i].res.id = inst[j].res.id
        /\ inst[j].res.id \in DOMAIN db.stories

\* a create of one of the two instances has returned Ok, and that instance
\* has not started its next call
CreateSaved ==
    /\ last.op \in {"create_epic", "create_story"} /\ last.res.ok
    /\ inst[last.instance].pc = "idle"

\* C39: with two instances, the ID a successful create returns is one more
\* than the last_item_id it read, and the file's last_item_id becomes that ID,
\* whatever the file held when the create wrote: an ID that is already a key
\* of the file, of the other kind too, may be returned, and last_item_id may
\* go down
C39_IdFromOwnRead ==
    CreateSaved =>
        /\ last.res.id = inst[last.instance].loaded.last_item_id + 1
        /\ db.last_item_id = last.res.id

\* a create_epic has returned the ID of a story of the file, and its write
\* has lowered the file's last_item_id
C39_Witness ==
    /\ CreateSaved
    /\ last.op = "create_epic"
    /\ last.res.id \in DOMAIN Pre.stories
    /\ db.last_item_id < Pre.last_item_id

\* C40: every successful create returns an ID greater, as a u32, than the
\* last_item_id it read, also when that is u32::MAX, and greater than every
\* key the state it read holds
C40_AsStated ==
    (last.op \in {"create_epic", "create_story"} /\ last.res.ok) =>
        /\ U32Less(Pre.last_item_id, last.res.id)
        /\ \A k \in Live(Pre) : U32Less(k, last.res.id)

====
